---- MODULE Spec2Model ----
(***************************************************************************)
(* A model of the string extractor / resource merger / source rewriter of  *)
(* src/helper.py and of the save pass of src/chinese_string_extractor.py.  *)
(*                                                                         *)
(* Text is a sequence of tokens.  A token is a TLA+ string that stands for *)
(* the piece of source text written in it; the text is the concatenation   *)
(* of its tokens.  Single characters are single tokens ("a", "$", "{").    *)
(* "Z" and "W" stand for two characters of the CJK range U+4E00..U+9FFF (the *)
(* module text itself has to stay ASCII).  The fixed pieces that the code  *)
(* emits ("ResStrings.", ".format(", "import ", ...) are single tokens; no *)
(* sequence of the single-character tokens spells one of them, so equal    *)
(* text means equal token sequence.                                        *)
(***************************************************************************)
EXTENDS Integers, Sequences, FiniteSets, TLC

VARIABLES
    files,            \* source files of the project: path -> content
    xmls,             \* resource files: <<module, lang>> -> document
    current_strings,  \* the record list (the server's global / the list passed)
    ignored_strings,  \* the persisted ignore list: a set of texts
    phase,            \* position of the caller: which operation comes next
    last              \* what the last operation did (its return value, inputs,
                      \* and the intermediate values the claims speak about)

vars == <<files, xmls, current_strings, ignored_strings, phase, last>>

----------------------------------------------------------------------------
(* Bounds of the model.                                                    *)

MaxLits == 1      \* lines with literals in a file handed to the rewriter
MaxBody == 2      \* lines after the header of a file with import lines
MaxRecs == 2      \* records passed to one rewrite
MaxRuns == 2      \* calls of the rewriter on the same file
MaxMergeRecs == 2 \* records passed to one merge
MaxMerges == 2    \* calls of the merger
MaxFileLines == 1 \* lines of a file handed to the extractor
MaxPieces == 2    \* pieces of a text handed to the placeholder normalization
MaxNormalizations == 2  \* normalizations of the same text
MaxRequests == 3   \* requests to the service
MaxBatch == 2      \* records of a translation batch
MaxLimit == 2      \* limit of a request for reference pairs
MaxSignals == 2    \* signals delivered to the process

----------------------------------------------------------------------------
(* Characters.                                                             *)

DQ == "\""
SQ == "'"
NL == "\n"
SP == " "

\* the character class of contains_chinese: U+4E00..U+9FFF
IsChineseChar(c) == c \in {"Z", "W"}

\* [A-Za-z_], over the letters of the alphabet
IsAsciiLetter(c) == c \in {"a", "c", "g", "n", "o", "r", "t", "u", "x", "_"}
IsDigit(c) == c \in {"0", "1", "2", "3", "4", "5", "6", "7", "8", "9"}

\* \w of a Python str pattern: letters, digits, underscore, CJK included
IsWordChar(c) == IsAsciiLetter(c) \/ IsDigit(c) \/ IsChineseChar(c)

IsSpace(c) == c \in {SP, NL}

----------------------------------------------------------------------------
(* str operations, on token sequences.                                     *)

Min(S) == CHOOSE x \in S : \A y \in S : x <= y

Max(S) == CHOOSE x \in S : \A y \in S : x >= y

RECURSIVE LStrip(_)
LStrip(s) == IF s /= <<>> /\ IsSpace(Head(s)) THEN LStrip(Tail(s)) ELSE s

RECURSIVE RStrip(_)
RStrip(s) ==
    IF s /= <<>> /\ IsSpace(s[Len(s)]) THEN RStrip(SubSeq(s, 1, Len(s) - 1)) ELSE s

\* str.strip()
Strip(s) == LStrip(RStrip(s))

RECURSIVE RStripNL(_)
\* str.rstrip('\n')
RStripNL(s) ==
    IF s /= <<>> /\ s[Len(s)] = NL THEN RStripNL(SubSeq(s, 1, Len(s) - 1)) ELSE s

MatchAt(p, s, i) ==
    /\ i >= 1
    /\ i + Len(p) - 1 <= Len(s)
    /\ p /= <<>> => s[i] = p[1]
    /\ SubSeq(s, i, i + Len(p) - 1) = p

\* p in s
Contains(p, s) == \E i \in 1..(Len(s) + 1) : MatchAt(p, s, i)

\* s.startswith(p)
StartsWith(s, p) == MatchAt(p, s, 1)

\* the leftmost occurrence of p in s at or after i, 0 when there is none
NextMatch(p, s, i) ==
    LET at == {j \in i..(Len(s) - Len(p) + 1) : MatchAt(p, s, j)}
    IN  IF at = {} THEN 0 ELSE CHOOSE j \in at : \A k \in at : j <= k

RECURSIVE SubnFrom(_, _, _, _, _, _)
SubnFrom(p, r, s, i, out, num) ==
    LET j == NextMatch(p, s, i)
    IN  IF j = 0 THEN [out |-> out \o SubSeq(s, i, Len(s)), num |-> num]
        ELSE SubnFrom(p, r, s, j + Len(p), out \o SubSeq(s, i, j - 1) \o r, num + 1)

\* re.subn(re.escape(p), r, s) for a non-empty p: the non-overlapping
\* occurrences of the literal p, leftmost first, each replaced by r.  (The
\* alphabet has no backslash, so r is its own expansion as a template.)
Subn(p, r, s) == SubnFrom(p, r, s, 1, <<>>, 0)

RECURSIVE SplitFrom(_, _, _)
SplitFrom(s, i, cur) ==
    IF i > Len(s) THEN <<cur>>
    ELSE IF s[i] = NL THEN <<cur>> \o SplitFrom(s, i + 1, <<>>)
    ELSE SplitFrom(s, i + 1, Append(cur, s[i]))

\* s.split('\n')
SplitLines(s) == SplitFrom(s, 1, <<>>)

RECURSIVE JoinLines(_)
\* '\n'.join(lines)
JoinLines(ls) ==
    IF ls = <<>> THEN <<>>
    ELSE IF Len(ls) = 1 THEN ls[1]
    ELSE ls[1] \o <<NL>> \o JoinLines(Tail(ls))

\* list.insert(at, x), at a 0-based index
InsertAt(ls, at, x) == SubSeq(ls, 1, at) \o <<x>> \o SubSeq(ls, at + 1, Len(ls))

----------------------------------------------------------------------------
(* Placeholders.                                                           *)

\* ^[A-Za-z_][A-Za-z0-9_]*$ on a stripped candidate
IsIdentifier(s) ==
    /\ s /= <<>>
    /\ IsAsciiLetter(s[1])
    /\ \A i \in 1..Len(s) : IsAsciiLetter(s[i]) \/ IsDigit(s[i])

\* \$\{(.+?)\} at i: the index of the closing brace, 0 when it does not
\* match.  The lazy group takes at least one character, none a newline.
BraceEnd(s, i) ==
    LET ends == {j \in (i + 3)..Len(s) :
                    /\ s[j] = "}"
                    /\ \A k \in (i + 2)..(j - 1) : s[k] /= NL}
    IN  IF i + 1 <= Len(s) /\ s[i + 1] = "{" /\ ends /= {}
        THEN CHOOSE j \in ends : \A k \in ends : j <= k
        ELSE 0

RECURSIVE WordEnd(_, _)
\* \w+ from i: the index of the last character of the run, i - 1 when empty
WordEnd(s, i) ==
    IF i <= Len(s) /\ IsWordChar(s[i]) THEN WordEnd(s, i + 1) ELSE i - 1

RECURSIVE FindPlaceholders(_, _)
\* re.compile(r"\$\{(.+?)\}|\$(\w+)").findall(s), scanning from i: the
\* (group 1, group 2) pairs, in order of appearance
FindPlaceholders(s, i) ==
    IF i > Len(s) THEN <<>>
    ELSE IF s[i] /= "$" THEN FindPlaceholders(s, i + 1)
    ELSE LET j == BraceEnd(s, i)
             k == WordEnd(s, i + 1)
         IN  IF j > 0
             THEN <<[g1 |-> SubSeq(s, i + 2, j - 1), g2 |-> <<>>]>>
                      \o FindPlaceholders(s, j + 1)
             ELSE IF k > i
             THEN <<[g1 |-> <<>>, g2 |-> SubSeq(s, i + 1, k)]>>
                      \o FindPlaceholders(s, k + 1)
             ELSE FindPlaceholders(s, i + 1)

DigitTok(d) == <<"0", "1", "2", "3", "4", "5", "6", "7", "8", "9">>[d + 1]

RECURSIVE Decimal(_)
\* str(n), n >= 0
Decimal(n) == IF n < 10 THEN <<DigitTok(n)>>
              ELSE Decimal(n \div 10) \o <<DigitTok(n % 10)>>

\* f"arg{idx+1}" for the 0-based idx
ArgN(idx) == <<"a", "r", "g">> \o Decimal(idx + 1)

RECURSIVE ArgsFromMatches(_, _)
\* helper.py:581-588: name = the expression when an identifier, else argN
\* with N the 1-based position of the match; blank expressions are skipped
ArgsFromMatches(ms, idx) ==
    IF idx >= Len(ms) THEN <<>>
    ELSE LET m == ms[idx + 1]
             raw_expr == Strip(IF m.g1 /= <<>> THEN m.g1 ELSE m.g2)
             final_name == IF IsIdentifier(raw_expr) THEN raw_expr ELSE ArgN(idx)
         IN  (IF raw_expr = <<>> THEN <<>>
              ELSE <<[name |-> final_name, value |-> raw_expr]>>)
                 \o ArgsFromMatches(ms, idx + 1)

RECURSIVE CleanArgs(_)
\* helper.py:561-576 (_clean_arg_item over s.args)
CleanArgs(args) ==
    IF args = <<>> THEN <<>>
    ELSE LET name == Strip(Head(args).name)
             value == Strip(Head(args).value)
         IN  (IF name = <<>> THEN <<>>
              ELSE <<[name |-> name,
                      value |-> IF value = <<>> THEN name ELSE value]>>)
                 \o CleanArgs(Tail(args))

\* a variant that never uses the args of the record
RewriterArgs_ParsedOnly(s) == ArgsFromMatches(FindPlaceholders(s.text, 1), 0)

\* the args list the rewriter hands to the hook for record s
RewriterArgs(s) ==
    IF s.args /= <<>> THEN CleanArgs(s.args)
    ELSE ArgsFromMatches(FindPlaceholders(s.text, 1), 0)

----------------------------------------------------------------------------
(* The default hooks.                                                      *)

RECURSIVE FormatParts(_)
FormatParts(args) ==
    IF args = <<>> THEN <<>>
    ELSE LET n0 == Strip(Head(args).name)
             name == IF n0 = <<>> THEN <<"a", "r", "g">> ELSE n0
             v0 == Strip(Head(args).value)
             value == IF v0 = <<>> THEN name ELSE v0
             part == name \o <<" = (">> \o value \o <<").toString()">>
         IN  IF Len(args) = 1 THEN part
             ELSE part \o <<", ">> \o FormatParts(Tail(args))

\* _default_get_replaced_text
DefaultGetReplacedText(res_name, args) ==
    IF args = <<>> THEN <<"ResStrings.">> \o res_name
    ELSE <<"ResStrings.">> \o res_name \o <<".format(">> \o FormatParts(args) \o <<")">>

\* module_name.replace('-', ''), on the module names of the model
RemoveDash(m) == IF m = "my-lib" THEN "mylib" ELSE m

\* _default_get_import_statements
DefaultGetImportStatements(module_name) ==
    IF module_name = "composeApp"
    THEN <<"import ", "com.funny.translation", ".strings.ResStrings">>
    ELSE <<"import ", "com.funny.translation", ".", RemoveDash(module_name),
           ".strings.ResStrings">>

----------------------------------------------------------------------------
(* The hook loader: StringReplacer._load_replacement_script.               *)
(* A script is described by what its evaluation does: whether it is blank, *)
(* how the exec ends (normally, with an Exception, with a BaseException    *)
(* that is no Exception, such as SystemExit), what it has bound to each of *)
(* the three names by then (nothing, a function, another value that is     *)
(* true, a value that is false), and the resource names for which its      *)
(* get_replaced_text raises when called.                                   *)

HookNames == {"get_replaced_text", "get_import_statements", "format_xml_text"}

DefKinds == {"absent", "function", "truthy", "falsy"}

FailKinds == {"no", "Exception", "BaseException"}

Script(fails, defs, raises_for) ==
    [blank |-> FALSE, fails |-> fails, defs |-> defs, raises_for |-> raises_for]

\* the empty script, and a script of white space
BlankScript ==
    [blank |-> TRUE, fails |-> "no", defs |-> [h \in HookNames |-> "absent"],
     raises_for |-> {}]

\* local_vars.get(name) or default, then the callable test
HookOf(script, h) ==
    LET got == IF script.defs[h] \in {"absent", "falsy"} THEN "default"
               ELSE script.defs[h]
    IN  IF got = "function" THEN "script" ELSE "default"

Hooks(get_replaced, get_imports, format_xml, script) ==
    [get_replaced_text |-> get_replaced, get_import_statements |-> get_imports,
     format_xml_text |-> format_xml, script |-> script]

\* the three built-in functions
DefaultHooks == Hooks("default", "default", "default", BlankScript)

\* _load_replacement_script: the three hooks, or the exception that leaves
\* the function (except Exception does not catch a BaseException)
LoadReplacementScript(script) ==
    IF script.blank THEN [raised |-> FALSE, hooks |-> DefaultHooks]
    ELSE IF script.fails = "BaseException"
         THEN [raised |-> TRUE, hooks |-> DefaultHooks]
    ELSE IF script.fails = "Exception"
         THEN [raised |-> FALSE, hooks |-> DefaultHooks]
    ELSE [raised |-> FALSE,
          hooks |-> Hooks(HookOf(script, "get_replaced_text"),
                          HookOf(script, "get_import_statements"),
                          HookOf(script, "format_xml_text"), script)]

\* self._get_replaced_text(res_name, args, file_path).  The function of a
\* script returns 'R.' + res_name, or raises.
GetReplacedText(hooks, res_name, args) ==
    IF hooks.get_replaced_text = "default"
    THEN [raised |-> FALSE, value |-> DefaultGetReplacedText(res_name, args)]
    ELSE IF res_name \in hooks.script.raises_for
         THEN [raised |-> TRUE, value |-> <<>>]
    ELSE [raised |-> FALSE, value |-> <<"R.">> \o res_name]

\* self._get_import_statements(module_name, file_path).  The function of a
\* script returns the line of the default.
GetImportStatements(hooks, module_name) == DefaultGetImportStatements(module_name)

----------------------------------------------------------------------------
(* Source Rewriter: StringReplacer.replace_strings_in_file_advanced.       *)

\* the two literal patterns of a text: f'"{re.escape(text)}"', then with
\* single quotes
LiteralPatterns(text) == << <<DQ>> \o text \o <<DQ>>, <<SQ>> \o text \o <<SQ>> >>

\* the inner loop over the two patterns (helper.py:602-608), on the loop's
\* state st = [content, any_replaced, replaced_count]
ReplacePattern(st, patt, replaced_expr) ==
    SubnFrom(patt, replaced_expr, st.content, 1, <<>>, 0)

ApplySubn(st, res) ==
    [content |-> res.out,
     any_replaced |-> st.any_replaced \/ res.num > 0,
     replaced_count |-> st.replaced_count + res.num]

RECURSIVE ReplacePatterns(_, _, _)
ReplacePatterns(st, patts, replaced_expr) ==
    IF patts = <<>> THEN st
    ELSE ReplacePatterns(ApplySubn(st, ReplacePattern(st, Head(patts), replaced_expr)),
                         Tail(patts), replaced_expr)

\* helper.py:590-595: the expression the hook returns, the bare reference
\* when the hook raises
ReplacedExpr(hooks, s) ==
    LET r == GetReplacedText(hooks, s.resource_name, RewriterArgs(s))
    IN  IF r.raised THEN <<"ResStrings.">> \o s.resource_name ELSE r.value

\* the loop body for one record (helper.py:553-608), with the hooks of the
\* replacer
ReplaceOneRecordWith(st, s, hooks) ==
    IF s.resource_name = <<>> THEN st
    ELSE ReplacePatterns(st, LiteralPatterns(s.text), ReplacedExpr(hooks, s))

\* the loop body of a replacer built without a script
ReplaceOneRecord(st, s) == ReplaceOneRecordWith(st, s, DefaultHooks)

RECURSIVE ReplaceRecordsWith_StopAtRaise(_, _, _)
\* a variant that gives up the remaining records when the hook raises
ReplaceRecordsWith_StopAtRaise(st, strings, hooks) ==
    IF strings = <<>> THEN st
    ELSE IF Head(strings).resource_name /= <<>>
            /\ GetReplacedText(hooks, Head(strings).resource_name,
                               RewriterArgs(Head(strings))).raised
         THEN st
    ELSE ReplaceRecordsWith_StopAtRaise(ReplaceOneRecordWith(st, Head(strings), hooks),
                                        Tail(strings), hooks)

RECURSIVE ReplaceRecordsWith(_, _, _)
ReplaceRecordsWith(st, strings, hooks) ==
    IF strings = <<>> THEN st
    ELSE ReplaceRecordsWith(ReplaceOneRecordWith(st, Head(strings), hooks),
                            Tail(strings), hooks)

ReplaceRecords(st, strings) == ReplaceRecordsWith(st, strings, DefaultHooks)

\* line.strip().startswith(word) for a word token that ends in a space:
\* something other than white space has to follow the word
LineStartsWith(line, word) ==
    LET t == Strip(line) IN Len(t) >= 2 /\ t[1] = word

RECURSIVE ScanImports(_, _, _, _)
\* the loop of _insert_import_once (helper.py:725-731), 0-based indexes
ScanImports(lines, idx, package_index, last_import_index) ==
    IF idx >= Len(lines)
    THEN [package_index |-> package_index, last_import_index |-> last_import_index]
    ELSE IF package_index = -1 /\ LineStartsWith(lines[idx + 1], "package ")
    THEN ScanImports(lines, idx + 1, idx, last_import_index)
    ELSE IF LineStartsWith(lines[idx + 1], "import ")
    THEN ScanImports(lines, idx + 1, package_index, idx)
    ELSE ScanImports(lines, idx + 1, package_index, last_import_index)

\* a variant that ignores the existing import lines
InsertImportOnce_AfterPackage(content, import_line0) ==
    LET lines == SplitLines(content)
        sc == ScanImports(lines, 0, -1, -1)
        insert_at == IF sc.package_index >= 0 THEN sc.package_index + 1 ELSE 0
    IN  IF Contains(Strip(import_line0), content) THEN content
        ELSE JoinLines(InsertAt(lines, insert_at, RStripNL(import_line0)))

\* StringReplacer._insert_import_once
InsertImportOnce(content, import_line0) ==
    LET import_line == IF import_line0 /= <<>> /\ import_line0[Len(import_line0)] = NL
                       THEN import_line0 ELSE import_line0 \o <<NL>>
        lines == SplitLines(content)
        sc == ScanImports(lines, 0, -1, -1)
        insert_at == IF sc.last_import_index >= 0 THEN sc.last_import_index + 1
                     ELSE IF sc.package_index >= 0 THEN sc.package_index + 1
                     ELSE 0
    IN  IF Contains(Strip(import_line), content) THEN content
        ELSE JoinLines(InsertAt(lines, insert_at, RStripNL(import_line)))

\* if import_line and import_line not in content (helper.py:617)
ImportMissing(import_line, content) ==
    import_line /= <<>> /\ ~Contains(import_line, content)

\* replace_strings_in_file_advanced on a file holding content: the new
\* content of the file, the value returned, and the intermediate values
RewriteFileWith(content, strings, module_name, hooks) ==
    LET st == ReplaceRecordsWith([content |-> content, any_replaced |-> FALSE,
                                  replaced_count |-> 0], strings, hooks)
        import_line == GetImportStatements(hooks, module_name)
        inserted == st.any_replaced /\ ImportMissing(import_line, st.content)
        final == IF inserted THEN InsertImportOnce(st.content, import_line)
                 ELSE st.content
    IN  [content |-> final,
         ret |-> final /= content,
         after_replace |-> st.content,
         any_replaced |-> st.any_replaced,
         replaced_count |-> st.replaced_count,
         import_line |-> import_line]

\* replace_strings_in_file_advanced of a replacer built without a script
RewriteFile(content, strings, module_name) ==
    RewriteFileWith(content, strings, module_name, DefaultHooks)

----------------------------------------------------------------------------
(* The resource merger: StringReplacer.generate_strings_xml_with_template. *)
(* A resource file is the document lxml reads and writes: the text of the  *)
(* root before its first child, and the children of the root in order.     *)
(* A child is a string element, another element or a comment, with its     *)
(* name attribute (empty when it has none), its other attributes, its text *)
(* and the text that follows it (tail).                                    *)

INDENT == "\n    "

\* the resource file that the template names for a module and a language
XmlPath(module_name, lang) == <<module_name, lang>>

XmlNode(tag, name, text, attrs, tail) ==
    [tag |-> tag, name |-> name, text |-> text, attrs |-> attrs, tail |-> tail]

\* no file at the path
AbsentDoc ==
    [exists |-> FALSE, wellformed |-> FALSE, root_text |-> <<>>,
     children |-> <<>>, writes |-> 0]

\* LET.parse, or a new <resources> root when the file is absent or its
\* parse raises XMLSyntaxError
LoadTree(doc) ==
    IF doc.exists /\ doc.wellformed
    THEN [root_text |-> doc.root_text, children |-> doc.children]
    ELSE [root_text |-> <<>>, children |-> <<>>]

\* existing_names: the names of the root's string children with a name
ExistingNames(doc) ==
    IF doc.exists /\ doc.wellformed
    THEN {doc.children[i].name : i \in
             {j \in 1..Len(doc.children) :
                 doc.children[j].tag = "string" /\ doc.children[j].name /= <<>>}}
    ELSE {}

\* a variant that proposes every named record
ToAppend_NoSkip(strings, existing_names) ==
    SelectSeq(strings, LAMBDA s : s.resource_name /= <<>>)

\* to_append: the named records whose name the file does not hold
ToAppend(strings, existing_names) ==
    SelectSeq(strings, LAMBDA s : s.resource_name /= <<>>
                                  /\ s.resource_name \notin existing_names)

RECURSIVE SubWordFrom(_, _, _, _, _)
\* re.sub(p + r"\b", r, s) for a p that ends with a word character
SubWordFrom(p, r, s, i, out) ==
    LET j == NextMatch(p, s, i)
    IN  IF j = 0 THEN out \o SubSeq(s, i, Len(s))
        ELSE IF j + Len(p) > Len(s) \/ ~IsWordChar(s[j + Len(p)])
             THEN SubWordFrom(p, r, s, j + Len(p), out \o SubSeq(s, i, j - 1) \o r)
             ELSE SubWordFrom(p, r, s, j + 1, out \o SubSeq(s, i, j))

\* a variant whose pattern for the bare form lacks the dollar sign
NormalizeOne_BareWithoutDollar(normalized, item) ==
    LET name == Strip(item.name)
        value == Strip(item.value)
        braced == Subn(<<"$", "{">> \o value \o <<"}">>,
                       <<"$", "{">> \o name \o <<"}">>, normalized).out
    IN  IF name = <<>> \/ value = <<>> THEN normalized
        ELSE IF IsIdentifier(value)
             THEN SubWordFrom(value, <<"$">> \o name, braced, 1, <<>>)
             ELSE braced

\* one turn of the loop of _normalize_placeholders
NormalizeOne(normalized, item) ==
    LET name == Strip(item.name)
        value == Strip(item.value)
        braced == Subn(<<"$", "{">> \o value \o <<"}">>,
                       <<"$", "{">> \o name \o <<"}">>, normalized).out
    IN  IF name = <<>> \/ value = <<>> THEN normalized
        ELSE IF IsIdentifier(value)
             THEN SubWordFrom(<<"$">> \o value, <<"$">> \o name, braced, 1, <<>>)
             ELSE braced

RECURSIVE NormalizePlaceholders(_, _)
\* StringReplacer._normalize_placeholders
NormalizePlaceholders(text, args) ==
    IF text = <<>> \/ args = <<>> THEN text
    ELSE NormalizePlaceholders(NormalizeOne(text, Head(args)), Tail(args))

\* _default_format_xml_text
DefaultFormatXmlText(text, args) ==
    IF args = <<>> THEN text ELSE NormalizePlaceholders(text, args)

\* the text of an appended entry
XmlText(s, lang) ==
    LET base_text == IF lang /= "zh" THEN s.translation ELSE s.text
    IN  IF s.args /= <<>> THEN DefaultFormatXmlText(base_text, s.args)
        ELSE base_text

IsElement(node) == node.tag /= "comment"

IsBlank(text) == \A i \in 1..Len(text) : IsSpace(text[i])

\* the indentation before the first appended element
FixIndent(tree) ==
    LET elements == {i \in 1..Len(tree.children) : IsElement(tree.children[i])}
    IN  IF elements /= {}
        THEN [tree EXCEPT !.children[Max(elements)].tail = <<INDENT>>]
        ELSE IF IsBlank(tree.root_text)
             THEN [tree EXCEPT !.root_text = <<INDENT>>]
             ELSE tree

\* a variant that puts the new elements before the existing children
AppendNodes_First(tree, to_append, lang) ==
    [tree EXCEPT !.children =
        [idx \in 1..Len(to_append) |->
            XmlNode("string", to_append[idx].resource_name,
                    XmlText(to_append[idx], lang), <<>>,
                    IF idx = Len(to_append) THEN <<NL>> ELSE <<INDENT>>)] \o @]

\* the appended elements, with their tails
AppendNodes(tree, to_append, lang) ==
    [tree EXCEPT !.children = @ \o
        [idx \in 1..Len(to_append) |->
            XmlNode("string", to_append[idx].resource_name,
                    XmlText(to_append[idx], lang), <<>>,
                    IF idx = Len(to_append) THEN <<NL>> ELSE <<INDENT>>)]]

\* generate_strings_xml_with_template on the file the template names.
\* template: "ok", or "none" when no template is given.
GenerateStringsXml(doc, strings, lang, template) ==
    IF template = "none" THEN [doc |-> doc, ret |-> FALSE]
    ELSE LET to_append == ToAppend(strings, ExistingNames(doc))
             tree == IF to_append /= <<>>
                     THEN AppendNodes(FixIndent(LoadTree(doc)), to_append, lang)
                     ELSE LoadTree(doc)
         IN  [doc |-> [exists |-> TRUE, wellformed |-> TRUE,
                       root_text |-> tree.root_text,
                       children |-> tree.children,
                       writes |-> doc.writes + 1],
              ret |-> TRUE]

----------------------------------------------------------------------------
(* Records (ChineseString) and the inputs of the rewriter.                 *)

\* ChineseString.__post_init__: module_name defaults to the first part of
\* the path, "common" for a path without parts
ModuleOf(file_path) == IF file_path = <<>> THEN "common" ELSE file_path[1]

\* a ChineseString; context and selected are for the review UI only
Record(text, file_path, line_number, resource_name, translation, args) ==
    [text |-> text, file_path |-> file_path, line_number |-> line_number,
     resource_name |-> resource_name, translation |-> translation,
     args |-> args, module_name |-> ModuleOf(file_path)]

\* ChineseString.unique_id: f"{module_name}:{text}"
unique_id(s) == <<s.module_name, ":">> \o s.text

----------------------------------------------------------------------------
(* The extractor: ChineseStringExtractor.                                  *)

ContainsChinese(text) == \E i \in 1..Len(text) : IsChineseChar(text[i])

\* exclude_patterns: a line comment, a block comment opened and closed at
\* the head of the line, a log or print call anywhere in the line
IsExcludedLine(line) ==
    \/ StartsWith(LStrip(line), <<"// ">>)
    \/ (StartsWith(LStrip(line), <<"/*">>) /\ Contains(<<"*/">>, line))
    \/ \E i \in 1..Len(line) : line[i] \in {"Log.d(", "println(", "print("}

\* resstrings_pattern: ResStrings\.\w+ somewhere in the line
HasResStringsRef(line) ==
    \E i \in 1..(Len(line) - 1) : line[i] = "ResStrings." /\ IsWordChar(line[i + 1])

RECURSIVE FindLiterals(_, _, _)
\* re.finditer of a chinese_patterns entry, group 1 of each match: from a
\* quote q to the next q, with a CJK character between them; a quote that
\* starts no match is passed over
FindLiterals(line, q, i) ==
    IF i > Len(line) THEN <<>>
    ELSE IF line[i] /= q THEN FindLiterals(line, q, i + 1)
    ELSE LET close == {j \in (i + 1)..Len(line) : line[j] = q}
         IN  IF close = {} THEN <<>>
             ELSE IF ContainsChinese(SubSeq(line, i + 1, Min(close) - 1))
                  THEN <<SubSeq(line, i + 1, Min(close) - 1)>>
                           \o FindLiterals(line, q, Min(close) + 1)
                  ELSE FindLiterals(line, q, i + 1)

\* the args the extractor builds from the placeholders of a text
ExtractArgs(text) == ArgsFromMatches(FindPlaceholders(text, 1), 0)

RECURSIVE RecordsOf(_, _, _, _, _)
\* the records of the matches of one pattern in one line
RecordsOf(texts, file_path, line_number, ignored, existing_resources) ==
    IF texts = <<>> THEN <<>>
    ELSE (IF Head(texts) \in ignored \/ Head(texts) \in existing_resources
          THEN <<>>
          ELSE <<Record(Head(texts), file_path, line_number, <<>>, <<>>,
                        ExtractArgs(Head(texts)))>>)
         \o RecordsOf(Tail(texts), file_path, line_number, ignored, existing_resources)

ExtractFromLine(line, file_path, line_number, ignored, existing_resources) ==
    IF IsExcludedLine(line) \/ HasResStringsRef(line) THEN <<>>
    ELSE RecordsOf(FindLiterals(line, DQ, 1), file_path, line_number,
                   ignored, existing_resources)
         \o RecordsOf(FindLiterals(line, SQ, 1), file_path, line_number,
                      ignored, existing_resources)

RECURSIVE ExtractLines_ZeroBased(_, _, _, _, _)
\* a variant that numbers the lines from 0
ExtractLines_ZeroBased(lines, i, file_path, ignored, existing_resources) ==
    IF i > Len(lines) THEN <<>>
    ELSE ExtractFromLine(lines[i], file_path, i - 1, ignored, existing_resources)
         \o ExtractLines_ZeroBased(lines, i + 1, file_path, ignored, existing_resources)

RECURSIVE ExtractLines(_, _, _, _, _)
ExtractLines(lines, i, file_path, ignored, existing_resources) ==
    IF i > Len(lines) THEN <<>>
    ELSE ExtractFromLine(lines[i], file_path, i, ignored, existing_resources)
         \o ExtractLines(lines, i + 1, file_path, ignored, existing_resources)

IsKotlinFile(file_path) == file_path[Len(file_path)] \in {"A.kt", "B.kt", "C.kt"}

\* extract_strings_from_file
ExtractStringsFromFile(file_path, content, ignored, existing_resources) ==
    IF ~IsKotlinFile(file_path) THEN <<>>
    ELSE ExtractLines(SplitLines(content), 1, file_path, ignored, existing_resources)

\* load_existing_resources: the texts with a CJK character of the named
\* entries of the resource files that parse
ExistingResources(x) ==
    UNION { IF x[p].exists /\ x[p].wellformed
            THEN {x[p].children[i].text : i \in
                     {j \in 1..Len(x[p].children) :
                         /\ x[p].children[j].tag = "string"
                         /\ x[p].children[j].name /= <<>>
                         /\ ContainsChinese(x[p].children[j].text)}}
            ELSE {} : p \in DOMAIN x }

\* the ignore list of a project: the file ignored_strings.json in its root
IgnorePath == <<"ignored_strings.json">>

IsJsonWhitespace(c) == c \in {SP, NL}

RECURSIVE SkipWhitespace(_, _)
\* the first position from i on that holds no white space
SkipWhitespace(s, i) ==
    IF i <= Len(s) /\ IsJsonWhitespace(s[i]) THEN SkipWhitespace(s, i + 1) ELSE i

RECURSIVE StringEnd(_, _)
\* the position of the quote that closes a JSON string, 0 if there is none
StringEnd(s, i) ==
    IF i > Len(s) THEN 0
    ELSE IF s[i] = DQ THEN i
    ELSE StringEnd(s, i + 1)

JsonRaised(error) == [raised |-> TRUE, error |-> error, value |-> {}]

JsonValue(value) == [raised |-> FALSE, error |-> "", value |-> value]

RECURSIVE JsonItems(_, _, _)
\* the strings of a JSON array from position i on, as a set
JsonItems(s, i, acc) ==
    LET a == SkipWhitespace(s, i)
    IN  IF a > Len(s) \/ s[a] /= DQ THEN JsonRaised("JSONDecodeError")
        ELSE LET e == StringEnd(s, a + 1)
                 b == SkipWhitespace(s, e + 1)
                 items == acc \cup {SubSeq(s, a + 1, e - 1)}
             IN  IF e = 0 \/ b > Len(s) THEN JsonRaised("JSONDecodeError")
                 ELSE IF s[b] = "," THEN JsonItems(s, b + 1, items)
                 ELSE IF s[b] = "]" /\ SkipWhitespace(s, b + 1) > Len(s)
                      THEN JsonValue(items)
                 ELSE JsonRaised("JSONDecodeError")

\* set(json.load(f)) for a file that holds an array of strings, a number,
\* or text that is no JSON: the set, or the exception (json.load raises
\* JSONDecodeError for text that is no JSON, set() raises TypeError for a
\* number)
SetOfJson(s) ==
    LET a == SkipWhitespace(s, 1)
        b == SkipWhitespace(s, a + 1)
    IN  IF a > Len(s) THEN JsonRaised("JSONDecodeError")
        ELSE IF s[a] = "["
             THEN IF b <= Len(s) /\ s[b] = "]" /\ SkipWhitespace(s, b + 1) > Len(s)
                  THEN JsonValue({})
                  ELSE JsonItems(s, a + 1, {})
        ELSE IF \A i \in a..Len(s) : IsDigit(s[i]) THEN JsonRaised("TypeError")
        ELSE JsonRaised("JSONDecodeError")

\* load_ignored_strings: the empty set without the file; nothing catches
\* what the load of the file raises
LoadIgnoredStrings(fs) ==
    IF IgnorePath \in DOMAIN fs THEN SetOfJson(fs[IgnorePath]) ELSE JsonValue({})

RECURSIVE JsonDumpItems_NoSeparator(_)
\* a variant that writes no comma between the items
JsonDumpItems_NoSeparator(items) ==
    IF items = <<>> THEN <<>>
    ELSE <<NL, SP, SP, DQ>> \o Head(items) \o <<DQ>>
         \o JsonDumpItems_NoSeparator(Tail(items))

RECURSIVE JsonDumpItems(_)
JsonDumpItems(items) ==
    IF items = <<>> THEN <<>>
    ELSE <<NL, SP, SP, DQ>> \o Head(items) \o <<DQ>>
         \o (IF Len(items) > 1 THEN <<",">> ELSE <<>>)
         \o JsonDumpItems(Tail(items))

\* json.dump(items, f, ensure_ascii=False, indent=2)
JsonDump(items) ==
    IF items = <<>> THEN <<"[", "]">>
    ELSE <<"[">> \o JsonDumpItems(items) \o <<NL, "]">>

IsBuildPath(file_path) ==
    \E i \in 1..Len(file_path) : file_path[i] \in {"build", ".gradle", "node_modules"}

RECURSIVE ExtractFiles(_, _, _, _)
\* the records of the files, in the order rglob yields the files
ExtractFiles(fs, order, ignored, existing_resources) ==
    IF order = <<>> THEN <<>>
    ELSE (IF IsBuildPath(Head(order)) THEN <<>>
          ELSE ExtractStringsFromFile(Head(order), fs[Head(order)], ignored,
                                      existing_resources))
         \o ExtractFiles(fs, Tail(order), ignored, existing_resources)

RECURSIVE UniqueStrings_KeepLast(_)
\* a variant in which a later record of a unique_id takes the place of the
\* earlier one
UniqueStrings_KeepLast(all_strings) ==
    IF all_strings = <<>> THEN <<>>
    ELSE LET s == all_strings[Len(all_strings)]
             front == UniqueStrings_KeepLast(SubSeq(all_strings, 1, Len(all_strings) - 1))
         IN  IF \E i \in 1..Len(front) : unique_id(front[i]) = unique_id(s)
             THEN [i \in 1..Len(front) |->
                      IF unique_id(front[i]) = unique_id(s) THEN s ELSE front[i]]
             ELSE Append(front, s)

RECURSIVE UniqueStrings(_)
\* helper.py:225-234: the dict keyed by unique_id that keeps the first
\* record of each key, as a list in insertion order
UniqueStrings(all_strings) ==
    IF all_strings = <<>> THEN <<>>
    ELSE LET s == all_strings[Len(all_strings)]
             front == UniqueStrings(SubSeq(all_strings, 1, Len(all_strings) - 1))
         IN  IF \E i \in 1..Len(front) : unique_id(front[i]) = unique_id(s)
             THEN front
             ELSE Append(front, s)

\* extract_all_strings
ExtractAllStrings(fs, order, ignored, existing_resources) ==
    UniqueStrings(ExtractFiles(fs, order, ignored, existing_resources))

----------------------------------------------------------------------------
(* The save pass: save_changes of chinese_string_extractor.py.             *)

\* the update of one record: resource name and translation overwritten by
\* the update with the record's unique_id, if there is one
ApplyUpdate(s, updates) ==
    IF unique_id(s) \in DOMAIN updates
    THEN [s EXCEPT !.resource_name = updates[unique_id(s)].resource_name,
                   !.translation = updates[unique_id(s)].translation]
    ELSE s

ApplyUpdates(strings, updates) ==
    [i \in 1..Len(strings) |-> ApplyUpdate(strings[i], updates)]

RECURSIVE DistinctInOrder(_)
\* the keys of a dict filled in this order
DistinctInOrder(keys) ==
    IF keys = <<>> THEN <<>>
    ELSE LET front == DistinctInOrder(SubSeq(keys, 1, Len(keys) - 1))
         IN  IF \E i \in 1..Len(front) : front[i] = keys[Len(keys)]
             THEN front ELSE Append(front, keys[Len(keys)])

\* the records that are saved: those with a resource name and a translation
Saveable(strings) ==
    SelectSeq(strings, LAMBDA s : s.resource_name /= <<>> /\ s.translation /= <<>>)

ModuleNames(strings) ==
    DistinctInOrder([i \in 1..Len(strings) |-> ModuleOf(strings[i].file_path)])

OfModule(strings, module_name) ==
    SelectSeq(strings, LAMBDA s : ModuleOf(s.file_path) = module_name)

\* file_to_strings: the records under the path stored in each
FilePaths(strings) ==
    DistinctInOrder([i \in 1..Len(strings) |-> strings[i].file_path])

OfFile(strings, file_path) ==
    SelectSeq(strings, LAMBDA s : s.file_path = file_path)

RECURSIVE RewriteFiles(_, _, _, _)
RewriteFiles(fs, paths, strings, module_name) ==
    IF paths = <<>> THEN fs
    ELSE RewriteFiles(
             [fs EXCEPT ![Head(paths)] =
                 RewriteFile(fs[Head(paths)], OfFile(strings, Head(paths)),
                             module_name).content],
             Tail(paths), strings, module_name)

\* one turn of the loop over the modules: the two merges, then the rewrites
SaveModule(st, module_name, strings, template, target_language) ==
    LET zh_path == XmlPath(module_name, "zh")
        zh == GenerateStringsXml(st.xmls[zh_path], strings, "zh", template)
        x1 == [st.xmls EXCEPT ![zh_path] = zh.doc]
        target_path == XmlPath(module_name, target_language)
        target == GenerateStringsXml(x1[target_path], strings, target_language, template)
    IN  [xmls |-> [x1 EXCEPT ![target_path] = target.doc],
         files |-> RewriteFiles(st.files, FilePaths(strings), strings, module_name)]

RECURSIVE SaveModules(_, _, _, _, _)
SaveModules(st, module_names, strings, template, target_language) ==
    IF module_names = <<>> THEN st
    ELSE SaveModules(SaveModule(st, Head(module_names),
                                OfModule(strings, Head(module_names)),
                                template, target_language),
                     Tail(module_names), strings, template, target_language)

\* save_changes after the records are updated
SaveChanges(fs, x, strings, template, target_language) ==
    SaveModules([files |-> fs, xmls |-> x], ModuleNames(Saveable(strings)),
                Saveable(strings), template, target_language)

----------------------------------------------------------------------------
(* The files extract_all_strings visits: Path.rglob over the inclusion     *)
(* patterns.  A pattern is the sequence of its segments; a path is matched *)
(* segment by segment, '**' standing for any number of directories.        *)

\* Path.suffix of a file name
SuffixOf(name) ==
    IF name \in {"A.kt", "B.kt", "C.kt"} THEN ".kt"
    ELSE IF name = "D.kts" THEN ".kts"
    ELSE IF name = "E.txt" THEN ".txt"
    ELSE ""

\* fnmatch of one segment: '*', '*<suffix>', or a name
SegmentMatches(seg, name) ==
    IF seg = "*" THEN TRUE
    ELSE IF seg = "*.kt" THEN SuffixOf(name) = ".kt"
    ELSE IF seg = "*.kts" THEN SuffixOf(name) = ".kts"
    ELSE seg = name

RECURSIVE GlobMatches(_, _)
GlobMatches(pattern, path) ==
    IF pattern = <<>> THEN path = <<>>
    ELSE IF Head(pattern) = "**"
         THEN \/ GlobMatches(Tail(pattern), path)
              \/ Len(path) > 1 /\ GlobMatches(pattern, Tail(path))
    ELSE /\ path /= <<>>
         /\ SegmentMatches(Head(pattern), Head(path))
         /\ GlobMatches(Tail(pattern), Tail(path))

\* root.rglob(pattern) yields the path
RGlobMatches(pattern, path) == GlobMatches(<<"**">> \o pattern, path)

\* helper.py:204: the default pattern when the caller gives none
GlobsInUse(extraction_globs) ==
    IF extraction_globs = <<>> THEN <<<<"**", "*.kt">>>> ELSE extraction_globs

RECURSIVE GlobbedFiles(_, _)
\* the files the patterns yield, pattern after pattern, each pattern in
\* the order of the directory walk
GlobbedFiles(globs, order) ==
    IF globs = <<>> THEN <<>>
    ELSE SelectSeq(order, LAMBDA f : RGlobMatches(Head(globs), f))
         \o GlobbedFiles(Tail(globs), order)

\* the files that are not skipped as visited
VisitedFiles(extraction_globs, order) ==
    DistinctInOrder(GlobbedFiles(GlobsInUse(extraction_globs), order))

\* extract_all_strings(extraction_globs)
ExtractAllStringsGlobs(fs, extraction_globs, order, ignored, existing_resources) ==
    UniqueStrings(ExtractFiles(fs, VisitedFiles(extraction_globs, order), ignored,
                               existing_resources))

----------------------------------------------------------------------------
(* Reference pairs: ChineseStringExtractor.extract_reference_translations. *)

RECURSIVE DictOf(_, _)
\* the dict that _parse_strings_xml fills from the children of the root:
\* the named string elements, a later one of the same name giving its text
\* to the key of the earlier one
DictOf(children, acc) ==
    IF children = <<>> THEN acc
    ELSE LET c == Head(children)
         IN  IF c.tag /= "string" \/ c.name = <<>> THEN DictOf(Tail(children), acc)
             ELSE IF \E k \in 1..Len(acc) : acc[k].name = c.name
                  THEN DictOf(Tail(children),
                              [k \in 1..Len(acc) |->
                                  IF acc[k].name = c.name
                                  THEN [name |-> c.name, text |-> c.text] ELSE acc[k]])
             ELSE DictOf(Tail(children), Append(acc, [name |-> c.name, text |-> c.text]))

\* _parse_strings_xml: empty for a file that is absent or does not parse
ParseStringsXml(doc) ==
    IF doc.exists /\ doc.wellformed THEN DictOf(doc.children, <<>>) ELSE <<>>

HasKey(dict, name) == \E k \in 1..Len(dict) : dict[k].name = name

ValueOf(dict, name) == dict[CHOOSE k \in 1..Len(dict) : dict[k].name = name].text

RECURSIVE ModuleReferences(_, _, _, _, _, _)
\* the loop over the entries of the source file of one module, from entry
\* k on: a pair is appended, then the limit is tested
ModuleReferences(source_strings, target_strings, module_name, k, references, limit) ==
    IF k > Len(source_strings) THEN references
    ELSE LET e == source_strings[k]
         IN  IF /\ HasKey(target_strings, e.name)
                /\ ContainsChinese(e.text)
                /\ Strip(ValueOf(target_strings, e.name)) /= <<>>
             THEN LET appended ==
                          Append(references,
                                 [source |-> e.text,
                                  target |-> ValueOf(target_strings, e.name),
                                  resource_name |-> e.name, module |-> module_name])
                  IN  IF Len(appended) >= limit THEN appended
                      ELSE ModuleReferences(source_strings, target_strings, module_name,
                                            k + 1, appended, limit)
             ELSE ModuleReferences(source_strings, target_strings, module_name,
                                   k + 1, references, limit)

RECURSIVE ExtractReferenceTranslations(_, _, _, _, _)
\* the loop over the directories of the root, in the order iterdir yields
\* them
ExtractReferenceTranslations(x, module_dirs, target_language, limit, references) ==
    IF module_dirs = <<>> THEN references
    ELSE LET module_name == Head(module_dirs)
             source == x[XmlPath(module_name, "zh")]
             target == x[XmlPath(module_name, target_language)]
         IN  IF \/ module_name \in {"build", ".gradle", "node_modules"}
                \/ ~source.exists \/ ~target.exists
             THEN ExtractReferenceTranslations(x, Tail(module_dirs), target_language,
                                               limit, references)
             ELSE LET found == ModuleReferences(ParseStringsXml(source),
                                                ParseStringsXml(target), module_name,
                                                1, references, limit)
                  IN  IF Len(found) >= limit THEN found
                      ELSE ExtractReferenceTranslations(x, Tail(module_dirs),
                                                        target_language, limit, found)

----------------------------------------------------------------------------
(* The translation handlers: translate_batch_api and translate_strings of  *)
(* chinese_string_extractor.py.  A result of the translation service is    *)
(* whatever the JSON of the answer holds at an index: a dict, a string,    *)
(* null.  A field of a dict is absent, null, a string, or (args) a list.   *)
(* arg_names, which the handlers store on the record, is read nowhere and  *)
(* is left out.                                                            *)

AbsentField == [state |-> "absent", value |-> <<>>]

NullField == [state |-> "null", value |-> <<>>]

StrField(value) == [state |-> "str", value |-> value]

ListField(value) == [state |-> "list", value |-> value]

DictResult(translation, name, resource_name, args) ==
    [kind |-> "dict", translation |-> translation, name |-> name,
     resource_name |-> resource_name, args |-> args]

\* a result that is a string, and a result that is null
StrResult == [DictResult(AbsentField, AbsentField, AbsentField, AbsentField)
                 EXCEPT !.kind = "str"]

NullResult == [StrResult EXCEPT !.kind = "null"]

\* trans.get(key, ''): the default for a key that is absent only
GetOrEmpty(field) == IF field.state = "absent" THEN StrField(<<>>) ELSE field

IsTruthy(field) == field.state \in {"str", "list"} /\ field.value /= <<>>

\* a or b
PyOr(a, b) == IF IsTruthy(a) THEN a ELSE b

\* trans.get('name', '') or trans.get('resource_name', '')
NameField(trans) == PyOr(GetOrEmpty(trans.name), GetOrEmpty(trans.resource_name))

\* what a record holds after None has been assigned to a text field
NoneValue == <<"None">>

\* the text stored for a field that is no list
Stored(field) == IF field.state = "null" THEN NoneValue ELSE field.value

\* isinstance(trans.get('args'), list): the args of the result replace the
\* args of the record
WithArgsOf(s, trans) ==
    IF trans.args.state = "list" THEN [s EXCEPT !.args = trans.args.value] ELSE s

SetAt(strings, unique, new) ==
    [k \in 1..Len(strings) |-> IF unique_id(strings[k]) = unique THEN new ELSE strings[k]]

HasId(strings, unique) == \E k \in 1..Len(strings) : unique_id(strings[k]) = unique

ById(strings, unique) == strings[CHOOSE k \in 1..Len(strings) : unique_id(strings[k]) = unique]

\* selected_strings: the records whose unique_id is among the selected ids
SelectedStrings(strings, selected_ids) ==
    SelectSeq(strings, LAMBDA s : \E i \in 1..Len(selected_ids) : selected_ids[i] = unique_id(s))

RECURSIVE BatchUpdateLoop(_, _, _, _)
\* the update loop of translate_batch_api (chinese_string_extractor.py:
\* 274-309) from index i on: the records, and whether an exception ended
\* the loop
BatchUpdateLoop(strings, selected_ids, results, i) ==
    IF i > Len(selected_ids) \/ i > Len(results) THEN [raised |-> FALSE, strings |-> strings]
    ELSE IF ~HasId(strings, selected_ids[i]) \/ results[i].kind /= "dict"
         THEN BatchUpdateLoop(strings, selected_ids, results, i + 1)
    ELSE LET trans == results[i]
             translation == GetOrEmpty(trans.translation)
             resource_name == NameField(trans)
             string_obj == ById(strings, selected_ids[i])
         IN  IF translation.state /= "str" \/ resource_name.state /= "str"
             THEN [raised |-> TRUE, strings |-> strings]
             ELSE IF Strip(translation.value) /= <<>> /\ Strip(resource_name.value) /= <<>>
                  THEN BatchUpdateLoop(
                           SetAt(strings, selected_ids[i],
                                 WithArgsOf([string_obj EXCEPT
                                                !.translation = Strip(translation.value),
                                                !.resource_name = Strip(resource_name.value)],
                                            trans)),
                           selected_ids, results, i + 1)
             ELSE BatchUpdateLoop(strings, selected_ids, results, i + 1)

RECURSIVE UpdateLoop(_, _, _, _)
\* the update loop of translate_strings (chinese_string_extractor.py:
\* 182-203) from index i on
UpdateLoop(strings, selected_ids, results, i) ==
    IF i > Len(selected_ids) \/ i > Len(results) THEN [raised |-> FALSE, strings |-> strings]
    ELSE IF ~HasId(strings, selected_ids[i])
         THEN UpdateLoop(strings, selected_ids, results, i + 1)
    ELSE IF results[i].kind /= "dict" THEN [raised |-> TRUE, strings |-> strings]
    ELSE LET trans == results[i]
             string_obj == ById(strings, selected_ids[i])
         IN  UpdateLoop(
                 SetAt(strings, selected_ids[i],
                       WithArgsOf([string_obj EXCEPT
                                      !.translation = Stored(GetOrEmpty(trans.translation)),
                                      !.resource_name = Stored(NameField(trans))],
                                  trans)),
                 selected_ids, results, i + 1)

\* translate_batch_api: 400 without an API key or without a selected
\* record, 500 without results or when the loop raises
TranslateBatchApi(strings, has_key, selected_ids, results) ==
    IF ~has_key \/ SelectedStrings(strings, selected_ids) = <<>>
    THEN [status |-> 400, strings |-> strings]
    ELSE IF results = <<>> THEN [status |-> 500, strings |-> strings]
    ELSE LET r == BatchUpdateLoop(strings, selected_ids, results, 1)
         IN  [status |-> IF r.raised THEN 500 ELSE 200, strings |-> r.strings]

\* translate_strings
TranslateStrings(strings, has_key, selected_ids, results) ==
    IF ~has_key \/ SelectedStrings(strings, selected_ids) = <<>>
    THEN [status |-> 400, strings |-> strings]
    ELSE LET r == UpdateLoop(strings, selected_ids, results, 1)
         IN  [status |-> IF r.raised THEN 500 ELSE 200, strings |-> r.strings]

----------------------------------------------------------------------------
(* Inputs.                                                                 *)

RewritePath == <<"login", "A.kt">>

SeqsUpTo(S, n) == UNION {[1..k -> S] : k \in 0..n}

Injective(l) == \A i, j \in 1..Len(l) : i /= j => l[i] /= l[j]

RECURSIVE FileText(_)
\* the content of a file with these lines, each ended by a newline
FileText(lines) ==
    IF lines = <<>> THEN <<>> ELSE Head(lines) \o <<NL>> \o FileText(Tail(lines))

\* lines a file may begin with
PackageLine == <<"package ", "x">>
OtherImportLine == <<"import ", "x">>
SameImportLine == DefaultGetImportStatements("login")
CommentedImportLine == <<"// ">> \o SameImportLine

N1 == <<"n", "1">>
N2 == <<"n", "2">>
N3 == <<"n", "3">>
N4 == <<"n", "4">>
N5 == <<"n", "5">>

\* the record of the literal "Z", named n1
RecZ == Record(<<"Z">>, RewritePath, 1, N1, <<"x">>, <<>>)
\* a record without a resource name
RecUnnamed == Record(<<"a", "Z">>, RewritePath, 1, <<>>, <<>>, <<>>)

\* lines with literals
LiteralPool ==
    { <<"x", "=", DQ, "Z", DQ>>,                          \* x="Z"
      <<SQ, "Z", SQ, "+", DQ, "a", "Z", DQ>>,             \* 'Z'+"aZ"
      <<"x", "=", DQ, "a", SQ, "Z", SQ, "a", DQ>>,        \* x="a'Z'a"
      <<"x", "=", DQ, DQ, "Z", DQ, DQ>>,                  \* x=""Z""
      <<"x", "=", DQ, "Z", "$", "{", "n", "}", DQ>>,      \* x="Z${n}"
      <<"x", "=", DQ, "W", DQ>> }                         \* x="W"

\* a record whose text is the reference expression of RecZ
RecRef == Record(<<"ResStrings.", "n", "1">>, RewritePath, 1, N2, <<"x">>, <<>>)

\* a record whose text holds Z between single quotes
RecNested == Record(<<"a", SQ, "Z", SQ, "a">>, RewritePath, 1, N3, <<"x">>, <<>>)

\* a record whose text holds a placeholder
RecPlaceholder == Record(<<"Z", "$", "{", "n", "}">>, RewritePath, 1, N4, <<"x">>, <<>>)

\* a record with caller-supplied arguments, one of them the literal 'Z'
RecWithArgs ==
    Record(<<"W">>, RewritePath, 1, N5, <<"x">>,
           <<[name |-> <<"n">>, value |-> <<SQ, "Z", SQ>>]>>)

RecPool == {RecZ, RecRef, RecUnnamed, RecNested, RecPlaceholder, RecWithArgs}

\* the identity args of a text with the placeholder count
Count == <<"c", "o", "u", "n", "t">>

IdentityArgs == <<[name |-> Count, value |-> Count]>>

\* texts handed to the normalization: up to MaxPieces of these pieces, one
\* after the other
NormalizePieces ==
    { <<"$", "{">> \o Count \o <<"}">>,       \* ${count}
      <<"$">> \o Count,                        \* $count
      Count, <<"$">>, <<"{">>, <<"}">>, <<"n">>, <<"Z">>, <<SP>> }

RECURSIVE Concat(_)
Concat(pieces) == IF pieces = <<>> THEN <<>> ELSE Head(pieces) \o Concat(Tail(pieces))

NormalizeTexts == {Concat(l) : l \in SeqsUpTo(NormalizePieces, MaxPieces)}

\* a record whose args give the placeholder of its text another name
RecRenamedArg ==
    Record(<<"W", "$", "{", "n", "}">>, RewritePath, 1, N2, <<"x">>,
           <<[name |-> <<"g">>, value |-> <<"n">>]>>)

\* a record whose text holds a braced expression and a bare identifier
RecTwoPlaceholders ==
    Record(<<"Z", "$", "{", "a", ".", "g", "}", "$", "n">>, RewritePath, 1, N3,
           <<"x">>, <<>>)

\* records handed to a replacer built with a script
HookRecPool == {RecZ, RecUnnamed, RecPlaceholder, RecRenamedArg, RecTwoPlaceholders}

HookRecordLists == {l \in SeqsUpTo(HookRecPool, MaxRecs) : Injective(l)}

\* lines with the literals of these records
HookLinePool ==
    { <<"x", "=", DQ, "Z", DQ>>,                                     \* x="Z"
      <<DQ, "Z", DQ, "+", DQ, "Z", "$", "{", "n", "}", DQ>>,         \* "Z"+"Z${n}"
      <<"x", "=", DQ, "W", "$", "{", "n", "}", DQ>>,                 \* x="W${n}"
      <<"x", "=", SQ, "Z", "$", "{", "a", ".", "g", "}", "$", "n", SQ>> }
                                                                     \* x='Z${a.g}$n'

\* a script that defines get_replaced_text only
ReplacedTextScript(fails, raises_for) ==
    Script(fails, [h \in HookNames |-> IF h = "get_replaced_text" THEN "function"
                                       ELSE "absent"], raises_for)

\* the scripts a replacer is built with before it rewrites: none, a script
\* whose function raises for some resource names, and scripts whose
\* evaluation fails
RewriteScripts ==
    {BlankScript}
        \cup {ReplacedTextScript("no", names) : names \in SUBSET {N1, N3, N4}}
        \cup {ReplacedTextScript("Exception", {}), ReplacedTextScript("BaseException", {})}

\* the scripts handed to the loader
Scripts ==
    {BlankScript}
        \cup {Script(fails, defs, {}) : fails \in FailKinds, defs \in [HookNames -> DefKinds]}

RecordLists == {l \in SeqsUpTo(RecPool, MaxRecs) : Injective(l)}

\* files whose import lines matter: a header, then a few lines
Headers ==
    { <<>>,
      <<PackageLine>>,
      <<PackageLine, OtherImportLine>>,
      <<PackageLine, SameImportLine>>,
      <<PackageLine, CommentedImportLine>> }

BodyPool ==
    { <<"x", "=", DQ, "Z", DQ>>,                          \* x="Z"
      <<"x", "=", DQ, "a", "Z", DQ>>,                     \* x="aZ"
      OtherImportLine }

ImportRecordLists == {l \in SeqsUpTo({RecZ, RecUnnamed}, MaxRecs) : Injective(l)}

\* records handed to the merger: two records of different texts with the
\* same name, a record without a name, and a record with a placeholder and
\* arguments
MergeZ == Record(<<"Z">>, RewritePath, 1, N1, <<"x">>, <<>>)

MergeSameName == Record(<<"W">>, RewritePath, 2, N1, <<"a">>, <<>>)

MergeUnnamed == Record(<<"a", "Z">>, RewritePath, 4, <<>>, <<"x">>, <<>>)

MergeWithArgs ==
    Record(<<"$", "{", "g", "}", "Z">>, RewritePath, 5, N3, <<"$", "g">>,
           <<[name |-> <<"n">>, value |-> <<"g">>]>>)

MergePool == {MergeZ, MergeSameName, MergeUnnamed, MergeWithArgs}

MergeRecordLists == {l \in SeqsUpTo(MergePool, MaxMergeRecs) : Injective(l)}

\* resource files: none, an unparsable one, a document with one entry, and
\* a document with comments, another element and an entry without a name
\* around its entry.  The entry named n1 holds a text that is no record's.
\* (The empty document is what a merge of nothing into no file leaves.)
MalformedDoc == [AbsentDoc EXCEPT !.exists = TRUE]

EmptyDoc == [AbsentDoc EXCEPT !.exists = TRUE, !.wellformed = TRUE]

OneEntryDoc ==
    [EmptyDoc EXCEPT !.root_text = <<INDENT>>,
                     !.children = <<XmlNode("string", N2, <<"r">>, <<"translatable">>, <<NL>>)>>]

MixedDoc ==
    [EmptyDoc EXCEPT !.root_text = <<INDENT>>,
                     !.children = <<XmlNode("comment", <<>>, <<"c">>, <<>>, <<INDENT>>),
                                    XmlNode("string", N1, <<"r">>, <<>>, <<INDENT>>),
                                    XmlNode("plurals", N2, <<>>, <<>>, <<INDENT>>),
                                    XmlNode("string", <<>>, <<"u">>, <<>>, <<INDENT>>),
                                    XmlNode("comment", <<>>, <<"c">>, <<>>, <<NL>>)>>]

DocPool == {AbsentDoc, MalformedDoc, OneEntryDoc, MixedDoc}

Langs == {"zh", "en"}

Templates == {"ok", "none"}

\* the files of a project: two of the module login, one of the module home
PathB == <<"login", "B.kt">>

PathC == <<"home", "C.kt">>

ProjectPaths == {RewritePath, PathB, PathC}

\* lines of the second file of the module login: a literal, and a
\* single-quoted and a double-quoted literal
SecondFileLinePool ==
    { <<"x", "=", DQ, "Z", DQ>>,                             \* x="Z"
      <<"x", "=", SQ, "Z", SQ, "+", DQ, "W", DQ>> }          \* x='Z'+"W"

\* lines of the scanned files: those, a comment, a line with a reference, a
\* line with a literal without CJK before one with, a line with a
\* character literal between two string literals, a literal with a braced
\* and a bare placeholder, and a literal with a dollar sign before a digit
ExtractLinePool ==
    SecondFileLinePool \cup
    { <<"// ", DQ, "Z", DQ>>,                                \* // "Z"
      <<"ResStrings.", "n", "1", "+", DQ, "Z", DQ>>,         \* ResStrings.n1+"Z"
      <<"x", "=", DQ, "a", DQ, "+", DQ, "W", DQ>>,           \* x="a"+"W"
      <<DQ, "a", DQ, "+", SQ, "Z", SQ, "+", DQ, "W", DQ>>,   \* "a"+'Z'+"W"
      <<"x", "=", DQ, "Z", "$", "{", "a", ".", "g", "}", "$", "n", DQ>>,
                                                             \* x="Z${a.g}$n"
      <<"x", "=", DQ, "Z", "$", "1", DQ>> }                  \* x="Z$1"

ProjectFiles ==
    {[p \in ProjectPaths |-> IF p = RewritePath THEN a ELSE IF p = PathB THEN b ELSE c] :
        a \in {FileText(l) : l \in SeqsUpTo(ExtractLinePool, MaxFileLines)},
        b \in {FileText(l) : l \in SeqsUpTo(SecondFileLinePool, MaxFileLines)},
        c \in {<<>>, FileText(<<<<"x", "=", DQ, "Z", DQ>>>>)}}

\* every order in which the directory walk may yield the files
Orders(paths) ==
    {o \in [1..Cardinality(paths) -> paths] : Injective(o)}

ProjectXmlPaths == {XmlPath(m, lang) : m \in {"login", "home"}, lang \in Langs}

NoResources == [p \in ProjectXmlPaths |-> AbsentDoc]

\* the login module's zh file holds the text Z under the name n9
ZhResources ==
    [NoResources EXCEPT ![XmlPath("login", "zh")] =
        [EmptyDoc EXCEPT !.root_text = <<INDENT>>,
                         !.children = <<XmlNode("string", <<"n", "9">>, <<"Z">>, <<>>, <<NL>>)>>]]

\* the login module's zh file holds the same entry and is cut off before
\* the closing tag of the root
MalformedZhResources ==
    [ZhResources EXCEPT ![XmlPath("login", "zh")].wellformed = FALSE]

\* the source file of a project the service is asked about
ServiceSources ==
    { FileText(<<<<"x", "=", DQ, "Z", DQ>>>>),
      FileText(<<<<"x", "=", DQ, "W", DQ>>>>),
      FileText(<<<<"x", "=", DQ, "Z", DQ>>, <<"x", "=", DQ, "W", DQ>>>>) }

\* what ignored_strings.json holds: [], ["W"], the same cut off before
\* the closing bracket, and 5
IgnoreFileContents ==
    { JsonDump(<<>>),
      JsonDump(<<<<"W">>>>),
      <<"[", NL, SP, SP, DQ, "W", DQ>>,
      <<"5">> }

\* the files of the project, without and with an ignore list
ServiceFiles ==
    {[p \in {RewritePath} |-> a] : a \in ServiceSources}
        \cup {[p \in {RewritePath, IgnorePath} |-> IF p = RewritePath THEN a ELSE c] :
                  a \in ServiceSources, c \in IgnoreFileContents}

\* the texts a save request asks to ignore
ServiceIgnoreInputs == {{}, {<<"W">>}, {<<"Z">>}}

\* the root a request names: none, the root of the project, a path that
\* does not exist
Roots == {"", "project", "missing"}

\* the records the service holds when a translation is asked for: one
\* with a name and a translation from an earlier round, one without, one
\* with a placeholder
TranslateRecPool == {RecZ, RecUnnamed, RecPlaceholder}

TranslateRecordLists == {l \in SeqsUpTo(TranslateRecPool, MaxBatch) : Injective(l)}

\* a result with both fields
OkResult == DictResult(StrField(<<"T">>), StrField(<<"a">>), AbsentField, AbsentField)

\* what the translation service may answer at an index
ResultPool ==
    { OkResult,
      \* the name under the key resource_name, and args
      DictResult(StrField(<<"T">>), AbsentField, StrField(<<"g">>),
                 ListField(<<[name |-> <<"n">>, value |-> <<"n">>]>>)),
      \* no translation; no name; neither
      DictResult(AbsentField, StrField(<<"a">>), AbsentField, AbsentField),
      DictResult(StrField(<<"T">>), AbsentField, AbsentField, AbsentField),
      DictResult(AbsentField, AbsentField, AbsentField, AbsentField),
      \* a translation of white space
      DictResult(StrField(<<SP>>), StrField(<<"a">>), AbsentField, AbsentField),
      \* a translation that is null
      DictResult(NullField, StrField(<<"a">>), AbsentField, AbsentField),
      StrResult,
      NullResult }

\* the ids a request selects, in the order of the request
\* an id that is the id of no record
GhostId == <<"ghost", ":", "Z">>

SelectedIds(strings) ==
    {ids \in SeqsUpTo({unique_id(strings[k]) : k \in 1..Len(strings)} \cup {GhostId},
                      MaxBatch) :
        Injective(ids)}

\* a project with a source file, a source file under a build directory,
\* a script file, and a text file and a source file in the root, each
\* with a literal of its own
PathBuild == <<"login", "build", "B.kt">>

PathScript == <<"login", "D.kts">>

PathText == <<"E.txt">>

\* a source file in the root of the project
PathRoot == <<"C.kt">>

GlobPaths == {RewritePath, PathBuild, PathScript, PathText, PathRoot}

LiteralOfPath(path) ==
    IF path = RewritePath THEN <<"Z">>
    ELSE IF path = PathBuild THEN <<"W">>
    ELSE IF path = PathScript THEN <<"Z", "W">>
    ELSE IF path = PathText THEN <<"W", "Z">>
    ELSE <<"Z", "Z">>

\* the literal stands on the first line of the file, or on the second
GlobFiles ==
    {[path \in GlobPaths |->
         FileText((IF path \in second THEN <<<<"y", "=", "1">>>> ELSE <<>>)
                  \o <<<<"x", "=", DQ>> \o LiteralOfPath(path) \o <<DQ>>>>)] :
        second \in SUBSET GlobPaths}

\* the extraction_globs of a request: none, '**/*.kt', '**/*.kts', both,
\* '*', 'login/*.kt'
GlobInputs ==
    { <<>>,
      <<<<"**", "*.kt">>>>,
      <<<<"**", "*.kts">>>>,
      <<<<"**", "*.kts">>, <<"**", "*.kt">>>>,
      <<<<"*">>>>,
      <<<<"login", "*.kt">>>> }

\* the directories of a project with resource files
ReferenceModules == {"login", "home", "build"}

\* source files: absent; Z under n1 and W under n2; a text without a CJK
\* character under n1
ZhDocs ==
    { AbsentDoc,
      [EmptyDoc EXCEPT !.children = <<XmlNode("string", N1, <<"Z">>, <<>>, <<INDENT>>),
                                     XmlNode("string", N2, <<"W">>, <<>>, <<NL>>)>>],
      [EmptyDoc EXCEPT !.children = <<XmlNode("string", N1, <<"a">>, <<>>, <<NL>>)>>] }

\* target files: malformed; translations under n1 and n2; a blank
\* translation under n1 and none under n2
EnDocs ==
    { MalformedDoc,
      [EmptyDoc EXCEPT !.children = <<XmlNode("string", N1, <<"x">>, <<>>, <<INDENT>>),
                                     XmlNode("string", N2, <<"a">>, <<>>, <<NL>>)>>],
      [EmptyDoc EXCEPT !.children = <<XmlNode("string", N1, <<SP>>, <<>>, <<NL>>)>>] }

ReferenceResources ==
    {[path \in {XmlPath(m, lang) : m \in ReferenceModules, lang \in Langs} |->
         IF path[2] = "zh" THEN zh[path[1]] ELSE en[path[1]]] :
        zh \in [ReferenceModules -> ZhDocs], en \in [ReferenceModules -> EnDocs]}

\* pieces of a literal with placeholders: $n, ${n}, $arg2, ${a.g}, and a
\* CJK character
ArgPieces ==
    { <<"$", "n">>, <<"$", "{", "n", "}">>, <<"$", "a", "r", "g", "2">>,
      <<"$", "{", "a", ".", "g", "}">>, <<"Z">> }

\* a project of one file with one literal: Z, then up to MaxPieces + 1 of
\* the pieces
ArgFiles ==
    {[p \in {RewritePath} |->
         FileText(<<<<"x", "=", DQ, "Z">> \o Concat(l) \o <<DQ>>>>)] :
        l \in SeqsUpTo(ArgPieces, MaxPieces + 1)}

IgnoreInputs == {{}, {<<"W">>}}

\* the resource name the user gives to the i-th record
NameOf(i) == <<"n", DigitTok(i)>>

NoOp == [op |-> "none", rets |-> <<>>]

----------------------------------------------------------------------------
(* The rewriter called on one file, again and again with the same records. *)

InitRewrite ==
    /\ \E h \in {<<>>, <<PackageLine, SameImportLine>>},
          b \in SeqsUpTo(LiteralPool, MaxLits) :
           files = [p \in {RewritePath} |-> FileText(h \o b)]
    /\ current_strings \in RecordLists
    /\ xmls = <<>>
    /\ ignored_strings = {}
    /\ phase = [at |-> "rewrite", n |-> 0]
    /\ last = NoOp

InitImport ==
    /\ \E h \in Headers, b \in SeqsUpTo(BodyPool, MaxBody) :
           files = [p \in {RewritePath} |-> FileText(h \o b)]
    /\ current_strings \in ImportRecordLists
    /\ xmls = <<>>
    /\ ignored_strings = {}
    /\ phase = [at |-> "rewrite", n |-> 0]
    /\ last = NoOp

Rewrite ==
    /\ phase.at = "rewrite"
    /\ phase.n < MaxRuns
    /\ LET r == RewriteFile(files[RewritePath], current_strings, ModuleOf(RewritePath))
       IN  /\ files' = [files EXCEPT ![RewritePath] = r.content]
           /\ last' = [op |-> "rewrite", ret |-> r.ret,
                       rets |-> Append(last.rets, r.ret),
                       before |-> files[RewritePath],
                       after_replace |-> r.after_replace,
                       any_replaced |-> r.any_replaced,
                       import_line |-> r.import_line]
    /\ phase' = [phase EXCEPT !.n = @ + 1]
    /\ UNCHANGED <<xmls, current_strings, ignored_strings>>

NextRewrite == Rewrite

SpecRewrite == InitRewrite /\ [][NextRewrite]_vars

SpecImport == InitImport /\ [][NextRewrite]_vars

----------------------------------------------------------------------------
(* The merger called on the resource file of one module and language, with *)
(* any record lists.                                                       *)

InitMerge ==
    /\ \E lang \in Langs, doc \in DocPool : xmls = [p \in {XmlPath("login", lang)} |-> doc]
    /\ ignored_strings = {}
    /\ files = <<>>
    /\ current_strings = <<>>
    /\ phase = [at |-> "merge", n |-> 0]
    /\ last = NoOp

Merge ==
    /\ phase.at = "merge"
    /\ phase.n < MaxMerges
    /\ \E path \in DOMAIN xmls, strings \in MergeRecordLists, template \in Templates :
           LET lang == path[2]
               r == GenerateStringsXml(xmls[path], strings, lang, template)
           IN  /\ xmls' = [xmls EXCEPT ![path] = r.doc]
               /\ last' = [op |-> "merge", ret |-> r.ret,
                           rets |-> Append(last.rets, r.ret),
                           lang |-> lang, strings |-> strings,
                           template |-> template, path |-> path,
                           before |-> xmls[path]]
    /\ phase' = [phase EXCEPT !.n = @ + 1]
    /\ UNCHANGED <<files, current_strings, ignored_strings>>

NextMerge == Merge

SpecMerge == InitMerge /\ [][NextMerge]_vars

----------------------------------------------------------------------------
(* Extraction of a project, and the save pass after the review.            *)

InitExtract ==
    /\ files \in ProjectFiles
    /\ xmls \in {NoResources, ZhResources}
    /\ ignored_strings \in IgnoreInputs
    /\ current_strings = <<>>
    /\ phase = [at |-> "extract", n |-> 0]
    /\ last = NoOp

InitSave ==
    /\ files \in ProjectFiles
    /\ xmls = NoResources
    /\ ignored_strings = {}
    /\ current_strings = <<>>
    /\ phase = [at |-> "extract", n |-> 0]
    /\ last = NoOp

\* /api/extract: a new extractor (the ignore list and the existing
\* resources loaded), then extract_all_strings
Extract ==
    /\ phase.at = "extract"
    /\ \E order \in Orders(DOMAIN files) :
           /\ current_strings' = ExtractAllStrings(files, order, ignored_strings,
                                                   ExistingResources(xmls))
           /\ last' = [op |-> "extract", rets |-> <<>>, order |-> order,
                       all_strings |-> ExtractFiles(files, order, ignored_strings,
                                                    ExistingResources(xmls))]
    /\ phase' = [at |-> "review", n |-> 0]
    /\ UNCHANGED <<files, xmls, ignored_strings>>

\* /api/save: the names and translations the user sends for some of the
\* records, texts to ignore, the path template; the target language is en
Save ==
    /\ phase.at = "review"
    /\ \E named \in SUBSET (1..Len(current_strings)), template \in Templates,
          ignored \in IgnoreInputs :
           LET updates == [id \in {unique_id(current_strings[i]) : i \in named} |->
                              [resource_name |->
                                   NameOf(CHOOSE i \in named :
                                              unique_id(current_strings[i]) = id),
                               translation |-> <<"x">>]]
               strings == ApplyUpdates(current_strings, updates)
               st == SaveChanges(files, xmls, strings, template, "en")
           IN  /\ current_strings' = strings
               /\ ignored_strings' = ignored_strings \cup ignored
               /\ files' = st.files
               /\ xmls' = st.xmls
               /\ last' = [op |-> "save", rets |-> <<>>, template |-> template,
                           files_before |-> files,
                           all_strings |-> last.all_strings]
    /\ phase' = [at |-> "saved", n |-> 0]

NextExtract == Extract

SpecExtract == InitExtract /\ [][NextExtract]_vars

NextSave == Extract \/ Save

SpecSave == InitSave /\ [][NextSave]_vars

\* /api/extract once more after the save pass, over the same root: a new
\* extractor, which loads the ignore list and the resource files again
ExtractAgain ==
    /\ phase.at = "saved"
    /\ \E order \in Orders(DOMAIN files) :
           /\ current_strings' = ExtractAllStrings(files, order, ignored_strings,
                                                   ExistingResources(xmls))
           /\ last' = [op |-> "extract_again", rets |-> <<>>, order |-> order,
                       saved |-> Saveable(current_strings),
                       template |-> last.template,
                       files_before |-> last.files_before,
                       all_strings |-> ExtractFiles(files, order, ignored_strings,
                                                    ExistingResources(xmls))]
    /\ phase' = [at |-> "extracted_again", n |-> 0]
    /\ UNCHANGED <<files, xmls, ignored_strings>>

NextPipeline == Extract \/ Save \/ ExtractAgain

SpecPipeline == InitSave /\ [][NextPipeline]_vars

\* extraction and save of a project whose literal has placeholders
InitArgs ==
    /\ files \in ArgFiles
    /\ xmls = NoResources
    /\ ignored_strings = {}
    /\ current_strings = <<>>
    /\ phase = [at |-> "extract", n |-> 0]
    /\ last = NoOp

SpecArgs == InitArgs /\ [][NextSave]_vars

----------------------------------------------------------------------------
(* A replacer built with a script and called on one file:                  *)
(* StringReplacer(project_root, script).replace_strings_in_file_advanced.  *)

InitHooks ==
    /\ \E b \in SeqsUpTo(HookLinePool, MaxLits) :
           files = [p \in {RewritePath} |-> FileText(b)]
    /\ current_strings \in HookRecordLists
    /\ xmls = <<>>
    /\ ignored_strings = {}
    /\ phase = [at |-> "construct", n |-> 0]
    /\ last = NoOp

RewriteWithScript ==
    /\ phase.at = "construct"
    /\ \E script \in RewriteScripts :
           LET l == LoadReplacementScript(script)
               r == RewriteFileWith(files[RewritePath], current_strings,
                                    ModuleOf(RewritePath), l.hooks)
           IN  /\ files' = IF l.raised THEN files
                           ELSE [files EXCEPT ![RewritePath] = r.content]
               /\ last' = [op |-> "rewrite", propagated |-> l.raised,
                           script |-> script, hooks |-> l.hooks,
                           ret |-> ~l.raised /\ r.ret,
                           rets |-> <<~l.raised /\ r.ret>>,
                           before |-> files[RewritePath],
                           after_replace |-> IF l.raised THEN files[RewritePath]
                                             ELSE r.after_replace,
                           any_replaced |-> ~l.raised /\ r.any_replaced,
                           import_line |-> r.import_line]
    /\ phase' = [at |-> "rewritten", n |-> 1]
    /\ UNCHANGED <<xmls, current_strings, ignored_strings>>

NextHooks == RewriteWithScript

SpecHooks == InitHooks /\ [][NextHooks]_vars

----------------------------------------------------------------------------
(* The hook loader called on a script.                                     *)

InitLoader ==
    /\ files = <<>>
    /\ xmls = <<>>
    /\ current_strings = <<>>
    /\ ignored_strings = {}
    /\ phase = [at |-> "load", n |-> 0]
    /\ last = NoOp

LoadScript ==
    /\ phase.at = "load"
    /\ \E script \in Scripts :
           LET l == LoadReplacementScript(script)
           IN  last' = [op |-> "load", rets |-> <<>>, script |-> script,
                       propagated |-> l.raised, hooks |-> l.hooks]
    /\ phase' = [at |-> "loaded", n |-> 1]
    /\ UNCHANGED <<files, xmls, current_strings, ignored_strings>>

NextLoader == LoadScript

SpecLoader == InitLoader /\ [][NextLoader]_vars

----------------------------------------------------------------------------
(* The default XML formatter called on the text of a record with the       *)
(* identity args, and the normalization called on its result again.        *)

InitNormalize ==
    /\ \E text \in NormalizeTexts :
           current_strings = <<Record(text, RewritePath, 1, N1, <<>>, IdentityArgs)>>
    /\ files = <<>>
    /\ xmls = <<>>
    /\ ignored_strings = {}
    /\ phase = [at |-> "normalize", n |-> 0]
    /\ last = NoOp

Normalize ==
    /\ phase.at = "normalize"
    /\ phase.n < MaxNormalizations
    /\ LET s == current_strings[1]
           out == IF phase.n = 0 THEN DefaultFormatXmlText(s.text, s.args)
                  ELSE NormalizePlaceholders(s.text, s.args)
       IN  /\ current_strings' = <<[s EXCEPT !.text = out]>>
           /\ last' = [op |-> "normalize", rets |-> <<>>, before |-> s.text]
    /\ phase' = [phase EXCEPT !.n = @ + 1]
    /\ UNCHANGED <<files, xmls, ignored_strings>>

NextNormalize == Normalize

SpecNormalize == InitNormalize /\ [][NextNormalize]_vars

----------------------------------------------------------------------------
(* The service: /api/extract and /api/save of chinese_string_extractor.py  *)
(* with the root the request names, the ignore list file of the project    *)
(* and the answers of the handlers.  phase.root is the root of the         *)
(* extractor object the service holds.                                     *)

InitService ==
    /\ files \in ServiceFiles
    /\ xmls \in {NoResources, ZhResources, MalformedZhResources}
    /\ ignored_strings = {}
    /\ current_strings = <<>>
    /\ phase = [at |-> "start", n |-> 0, root |-> "none"]
    /\ last = NoOp

Snapshot ==
    [files |-> files, xmls |-> xmls, current_strings |-> current_strings,
     ignored_strings |-> ignored_strings]

\* extract_strings: 400 without a path; otherwise a new extractor, whose
\* constructor loads the ignore list and the existing resources, then
\* extract_all_strings; any exception is answered with 500, the extractor
\* and the records of the service left as they were.  Under a root that
\* does not exist there is no ignore list and rglob yields no file.
ExtractRequest ==
    /\ phase.n < MaxRequests
    /\ \E root \in Roots, order \in Orders(DOMAIN files \ {IgnorePath}) :
           LET load == LoadIgnoredStrings(files)
               status == IF root = "" THEN 400
                         ELSE IF root = "project" /\ load.raised THEN 500
                         ELSE 200
               ignored == IF root = "project" THEN load.value ELSE {}
               strings == IF root = "project"
                          THEN ExtractAllStrings(files, order, ignored,
                                                 ExistingResources(xmls))
                          ELSE <<>>
           IN  /\ current_strings' = IF status = 200 THEN strings ELSE current_strings
               /\ ignored_strings' = IF status = 200 THEN ignored ELSE ignored_strings
               /\ phase' = IF status = 200
                           THEN [at |-> "review", n |-> phase.n + 1, root |-> root]
                           ELSE [phase EXCEPT !.n = @ + 1]
               /\ last' = [op |-> "extract", rets |-> <<>>, root |-> root,
                           status |-> status, order |-> order, before |-> Snapshot]
    /\ UNCHANGED <<files, xmls>>

\* save_changes: 400 without a path or with a root that does not exist;
\* otherwise the records are updated, the texts to ignore are added to the
\* set of the extractor and written to the ignore list under the root of
\* the extractor, and the modules are saved; an exception is answered with
\* 500 and what was done before it stays done
SaveRequest ==
    /\ phase.at = "review"
    /\ phase.n < MaxRequests
    /\ \E root \in Roots, named \in SUBSET (1..Len(current_strings)),
          template \in Templates, ignored \in ServiceIgnoreInputs :
           LET updates == [id \in {unique_id(current_strings[i]) : i \in named} |->
                              [resource_name |->
                                   NameOf(CHOOSE i \in named :
                                              unique_id(current_strings[i]) = id),
                               translation |-> <<"x">>]]
               strings == ApplyUpdates(current_strings, updates)
               united == ignored_strings \cup ignored
               write_fails == ignored /= {} /\ phase.root /= "project"
           IN  IF root /= "project"
               THEN /\ last' = [op |-> "save", rets |-> <<>>, root |-> root,
                                status |-> 400, ignored |-> ignored,
                                template |-> template, before |-> Snapshot]
                    /\ UNCHANGED <<files, xmls, current_strings, ignored_strings>>
               ELSE /\ current_strings' = strings
                    /\ ignored_strings' = united
                    /\ last' = [op |-> "save", rets |-> <<>>, root |-> root,
                                status |-> IF write_fails THEN 500 ELSE 200,
                                ignored |-> ignored, template |-> template,
                                before |-> Snapshot]
                    /\ IF write_fails
                       THEN UNCHANGED <<files, xmls>>
                       ELSE \E listed \in Orders(united) :
                                LET written ==
                                        IF ignored = {} THEN files
                                        ELSE [p \in DOMAIN files \cup {IgnorePath} |->
                                                 IF p = IgnorePath THEN JsonDump(listed)
                                                 ELSE files[p]]
                                    st == SaveChanges(written, xmls, strings, template, "en")
                                IN  /\ files' = st.files
                                    /\ xmls' = st.xmls
    /\ phase' = [phase EXCEPT !.n = @ + 1]

NextService == ExtractRequest \/ SaveRequest

SpecService == InitService /\ [][NextService]_vars

----------------------------------------------------------------------------
(* The service asked to translate some of its records.                     *)

InitTranslate ==
    /\ current_strings \in TranslateRecordLists
    /\ files = <<>>
    /\ xmls = <<>>
    /\ ignored_strings = {}
    /\ phase = [at |-> "translate", n |-> 0]
    /\ last = NoOp

\* the request and the answer of a translation handler; a request that is
\* turned down before the translation service is called has no results
Translated(op, r, has_key, selected_ids, results) ==
    [op |-> op, rets |-> <<>>, status |-> r.status, has_key |-> has_key,
     selected_ids |-> selected_ids,
     results |-> IF r.status = 400 THEN <<>> ELSE results,
     before |-> current_strings]

\* /api/translate_batch
TranslateBatchRequest ==
    /\ phase.at = "translate"
    /\ \E has_key \in BOOLEAN, selected_ids \in SelectedIds(current_strings),
          results \in SeqsUpTo(ResultPool, MaxBatch) :
           LET r == TranslateBatchApi(current_strings, has_key, selected_ids, results)
           IN  /\ current_strings' = r.strings
               /\ last' = Translated("translate_batch", r, has_key, selected_ids, results)
    /\ phase' = [at |-> "translated", n |-> 1]
    /\ UNCHANGED <<files, xmls, ignored_strings>>

\* /api/translate
TranslateRequest ==
    /\ phase.at = "translate"
    /\ \E has_key \in BOOLEAN, selected_ids \in SelectedIds(current_strings),
          results \in SeqsUpTo(ResultPool, MaxBatch) :
           LET r == TranslateStrings(current_strings, has_key, selected_ids, results)
           IN  /\ current_strings' = r.strings
               /\ last' = Translated("translate", r, has_key, selected_ids, results)
    /\ phase' = [at |-> "translated", n |-> 1]
    /\ UNCHANGED <<files, xmls, ignored_strings>>

NextTranslate == TranslateBatchRequest \/ TranslateRequest

SpecTranslate == InitTranslate /\ [][NextTranslate]_vars

----------------------------------------------------------------------------
(* Extraction with the inclusion patterns of the request.                  *)

InitGlobs ==
    /\ files \in GlobFiles
    /\ xmls = NoResources
    /\ ignored_strings = {}
    /\ current_strings = <<>>
    /\ phase = [at |-> "extract", n |-> 0]
    /\ last = NoOp

\* /api/extract with extraction_globs
ExtractGlobs ==
    /\ phase.at = "extract"
    /\ \E extraction_globs \in GlobInputs, order \in Orders(DOMAIN files) :
           /\ current_strings' = ExtractAllStringsGlobs(files, extraction_globs, order,
                                                        ignored_strings,
                                                        ExistingResources(xmls))
           /\ last' = [op |-> "extract", rets |-> <<>>, order |-> order,
                       extraction_globs |-> extraction_globs]
    /\ phase' = [at |-> "review", n |-> 0]
    /\ UNCHANGED <<files, xmls, ignored_strings>>

NextGlobs == ExtractGlobs

SpecGlobs == InitGlobs /\ [][NextGlobs]_vars

----------------------------------------------------------------------------
(* The extractor asked for reference pairs.                                *)

InitReferences ==
    /\ xmls \in ReferenceResources
    /\ files = <<>>
    /\ ignored_strings = {}
    /\ current_strings = <<>>
    /\ phase = [at |-> "references", n |-> 0]
    /\ last = NoOp

\* extract_reference_translations(source template, 'en', target template,
\* limit)
ExtractReferences ==
    /\ phase.at = "references"
    /\ \E limit \in 0..MaxLimit, module_dirs \in Orders(ReferenceModules) :
           last' = [op |-> "references", rets |-> <<>>, limit |-> limit,
                    references |-> ExtractReferenceTranslations(xmls, module_dirs, "en",
                                                                limit, <<>>)]
    /\ phase' = [at |-> "done", n |-> 1]
    /\ UNCHANGED <<files, xmls, current_strings, ignored_strings>>

NextReferences == ExtractReferences

SpecReferences == InitReferences /\ [][NextReferences]_vars

----------------------------------------------------------------------------
(* The exit hooks of chinese_string_extractor.py.  The process runs the    *)
(* server, the KeyboardInterrupt fallback and the atexit hook in its main  *)
(* thread; a signal handler runs in the main thread as well, on top of     *)
(* whatever call is in progress, between two instructions of the           *)
(* interpreter.  Which instructions the interpreter polls for signals at   *)
(* is not fixed by the language: phase.polls is "every_instruction", or    *)
(* "calls_and_entries" for an interpreter that polls at the entry of a     *)
(* function and after a call.  phase.stack holds the calls in progress,    *)
(* the innermost last; phase.n counts the signals delivered.               *)

\* a call of print_sponsor_tip_once, before its first instruction
TipCall == [fn |-> "print_sponsor_tip_once", pc |-> "load", seen |-> FALSE]

\* _handle_sigint or _handle_sigterm, while its call of
\* print_sponsor_tip_once is in progress
HandlerCall(signum) == [fn |-> signum, pc |-> "previous", seen |-> FALSE]

Top == phase.stack[Len(phase.stack)]

Pop == SubSeq(phase.stack, 1, Len(phase.stack) - 1)

InTip(pc) ==
    /\ phase.at \in {"run", "fallback", "atexit"}
    /\ phase.stack /= <<>>
    /\ Top.fn = "print_sponsor_tip_once"
    /\ Top.pc = pc

\* the process after _register_exit_hooks, app.run in progress; SIGINT was
\* at its default, the handler that raises KeyboardInterrupt, or ignored
InitExit ==
    /\ files = <<>>
    /\ xmls = <<>>
    /\ current_strings = <<>>
    /\ ignored_strings = {}
    /\ last = NoOp
    /\ \E polls \in {"every_instruction", "calls_and_entries"},
          previous_sigint \in {"default_int_handler", "SIG_IGN"} :
           phase = [at |-> "run", n |-> 0, stack |-> <<>>, polls |-> polls,
                    previous_sigint |-> previous_sigint,
                    _sponsor_tip_printed |-> FALSE, printed |-> 0, nested |-> FALSE]

\* if _sponsor_tip_printed: the global is read
TipLoad ==
    /\ InTip("load")
    /\ phase' = [phase EXCEPT !.stack[Len(phase.stack)] =
                     [@ EXCEPT !.pc = "test", !.seen = phase._sponsor_tip_printed]]
    /\ UNCHANGED <<files, xmls, current_strings, ignored_strings, last>>

\* the branch on the value read: return, or go on
TipTest ==
    /\ InTip("test")
    /\ phase' = IF Top.seen THEN [phase EXCEPT !.stack = Pop]
                ELSE [phase EXCEPT !.stack[Len(phase.stack)].pc = "store"]
    /\ UNCHANGED <<files, xmls, current_strings, ignored_strings, last>>

\* _sponsor_tip_printed = True
TipStore ==
    /\ InTip("store")
    /\ phase' = [phase EXCEPT !._sponsor_tip_printed = TRUE,
                              !.stack[Len(phase.stack)].pc = "print_reason"]
    /\ UNCHANGED <<files, xmls, current_strings, ignored_strings, last>>

\* print of the reason
TipPrintReason ==
    /\ InTip("print_reason")
    /\ phase' = [phase EXCEPT !.stack[Len(phase.stack)].pc = "print_tip"]
    /\ UNCHANGED <<files, xmls, current_strings, ignored_strings, last>>

\* print of the tip, and the return
TipPrint ==
    /\ InTip("print_tip")
    /\ phase' = [phase EXCEPT !.printed = @ + 1, !.stack = Pop]
    /\ UNCHANGED <<files, xmls, current_strings, ignored_strings, last>>

\* the interpreter polls for signals where the process is
AtPoll ==
    IF phase.polls = "every_instruction" \/ phase.stack = <<>> THEN TRUE
    ELSE Top.fn = "print_sponsor_tip_once" /\ Top.pc \in {"load", "print_tip"}

\* SIGINT or SIGTERM is delivered: the handler is called on top of the
\* call in progress and calls print_sponsor_tip_once
Signal ==
    /\ phase.at \in {"run", "fallback", "atexit"}
    /\ phase.n < MaxSignals
    /\ AtPoll
    /\ \E signum \in {"SIGINT", "SIGTERM"} :
           phase' = [phase EXCEPT !.n = @ + 1,
                                  !.stack = @ \o <<HandlerCall(signum), TipCall>>,
                                  !.nested = @ \/ phase.stack /= <<>>]
    /\ UNCHANGED <<files, xmls, current_strings, ignored_strings, last>>

\* KeyboardInterrupt leaves every call in progress: out of app.run into
\* the fallback, which calls print_sponsor_tip_once; out of the fallback
\* and out of the script, the atexit hook runs; out of the atexit hook,
\* which ends the hook
Interrupted ==
    IF phase.at = "run" THEN [phase EXCEPT !.at = "fallback", !.stack = <<TipCall>>]
    ELSE IF phase.at = "fallback" THEN [phase EXCEPT !.at = "atexit", !.stack = <<TipCall>>]
    ELSE [phase EXCEPT !.at = "exited", !.stack = <<>>]

\* the handler after its call of print_sponsor_tip_once: the handler that
\* was installed before is called when it is callable; SIGTERM had none
HandlerReturns ==
    /\ phase.at \in {"run", "fallback", "atexit"}
    /\ phase.stack /= <<>>
    /\ Top.fn \in {"SIGINT", "SIGTERM"}
    /\ phase' = IF Top.fn = "SIGINT" /\ phase.previous_sigint = "default_int_handler"
                THEN Interrupted
                ELSE [phase EXCEPT !.stack = Pop]
    /\ UNCHANGED <<files, xmls, current_strings, ignored_strings, last>>

\* app.run returns: the script ends and the atexit hook runs
ServerStops ==
    /\ phase.at = "run" /\ phase.stack = <<>>
    /\ phase' = [phase EXCEPT !.at = "atexit", !.stack = <<TipCall>>]
    /\ UNCHANGED <<files, xmls, current_strings, ignored_strings, last>>

\* the fallback after its call: sys.exit(0), and the atexit hook runs
FallbackExits ==
    /\ phase.at = "fallback" /\ phase.stack = <<>>
    /\ phase' = [phase EXCEPT !.at = "atexit", !.stack = <<TipCall>>]
    /\ UNCHANGED <<files, xmls, current_strings, ignored_strings, last>>

\* the atexit hook returns
HookReturns ==
    /\ phase.at = "atexit" /\ phase.stack = <<>>
    /\ phase' = [phase EXCEPT !.at = "exited"]
    /\ UNCHANGED <<files, xmls, current_strings, ignored_strings, last>>

NextExit ==
    \/ TipLoad \/ TipTest \/ TipStore \/ TipPrintReason \/ TipPrint
    \/ Signal \/ HandlerReturns
    \/ ServerStops \/ FallbackExits \/ HookReturns

SpecExit == InitExit /\ [][NextExit]_vars

----------------------------------------------------------------------------
(* Vocabulary of the claims about the rewriter.                            *)

\* the file the rewriter was called on
File == files[RewritePath]

Rewritten == last.op = "rewrite"

\* the reference expression of a record, as the default hook renders it
RefExpr(s) == DefaultGetReplacedText(s.resource_name, RewriterArgs(s))

NamedIndexes == {i \in 1..Len(current_strings) : current_strings[i].resource_name /= <<>>}

NamedRecords == {current_strings[i] : i \in NamedIndexes}

Quoted(q, text) == <<q>> \o text \o <<q>>

RECURSIVE LiteralSpans(_, _)
\* the quoted literals of a text as a lexer pairs them, left to right: a
\* quote opens a literal that the next quote of the same kind on the line
\* closes.  Each as <<first, last>>, the delimiters included.
LiteralSpans(s, i) ==
    IF i > Len(s) THEN {}
    ELSE IF s[i] \notin {DQ, SQ} THEN LiteralSpans(s, i + 1)
    ELSE LET close == {j \in (i + 1)..Len(s) :
                          /\ s[j] = s[i]
                          /\ \A k \in (i + 1)..(j - 1) : s[k] /= NL}
         IN  IF close = {} THEN LiteralSpans(s, i + 1)
             ELSE {<<i, Min(close)>>} \cup LiteralSpans(s, Min(close) + 1)

\* records with an empty resource name cause no change: the replacements
\* are those of the list without them
UnnamedIgnored ==
    last.after_replace =
        ReplaceRecords([content |-> last.before, any_replaced |-> FALSE,
                        replaced_count |-> 0],
                       SelectSeq(current_strings,
                                 LAMBDA s : s.resource_name /= <<>>)).content

----------------------------------------------------------------------------
(* C1.                                                                     *)

\* C1: for any file content and any list of records, a second call of the
\* rewriter with the same records and module name on the file the first
\* call produced leaves the content unchanged and returns False.
C1_RewriteIdempotent ==
    (Rewritten /\ phase.n >= 2) => (last.ret = FALSE /\ File = last.before)

\* a second call that rewrote, inside the reference expression the first
\* call had put in, the quoted argument of a record with caller-supplied
\* arguments; the file held one plain literal
C1_SecondCallRewrites ==
    /\ Rewritten /\ phase.n = 2
    /\ last.rets = <<TRUE, TRUE>>
    /\ File /= last.before
    /\ current_strings = <<RecZ, RecWithArgs>>

----------------------------------------------------------------------------
(* C8.                                                                     *)

\* the quoted literals of the file before the call that are no record's
\* text between quotes but hold the text of a named record
LiteralsHoldingText ==
    {sp \in LiteralSpans(last.before, 1) :
        LET inner == SubSeq(last.before, sp[1] + 1, sp[2] - 1)
        IN  /\ \A r \in NamedRecords : r.text /= inner
            /\ \E r \in NamedRecords : Contains(r.text, inner)}

\* C8: for every record with a resource name the rewriter replaces every
\* occurrence of the record's text between double or single quotes by the
\* reference expression, and leaves untouched any quoted literal that holds
\* the text only as a proper substring; records without a resource name
\* cause no change.
C8_ExactLiteralsOnly ==
    Rewritten =>
        /\ \A r \in NamedRecords : \A q \in {DQ, SQ} :
               Contains(Quoted(q, r.text), last.before) =>
                   /\ last.any_replaced
                   /\ ~Contains(Quoted(q, r.text), last.after_replace)
        /\ \A sp \in LiteralsHoldingText :
               Contains(SubSeq(last.before, sp[1], sp[2]), last.after_replace)
        /\ UnnamedIgnored

\* the only record is Z, and the literal "a'Z'a" of the file has lost its
\* inner 'Z' to the reference expression
C8_NestedLiteralRewritten ==
    /\ Rewritten /\ phase.n = 1
    /\ current_strings = <<RecZ>>
    /\ Contains(<<DQ, "a", SQ, "Z", SQ, "a", DQ>>, last.before)
    /\ Contains(<<DQ, "a">> \o RefExpr(RecZ) \o <<"a", DQ>>, File)

----------------------------------------------------------------------------
(* C9, C10.                                                                *)

\* how many lines of a text are exactly this line
LineCount(line, s) ==
    Cardinality({i \in 1..Len(SplitLines(s)) : SplitLines(s)[i] = line})

\* C9: if a replacement occurred, the import line of the hook is a line of
\* the file exactly once after the call (inserted when no identical line
\* was there, not inserted again when one was); if none occurred, no import
\* line is added.
C9_ImportLineExactlyOnce ==
    Rewritten =>
        IF last.any_replaced
        THEN LineCount(last.import_line, File) = 1
        ELSE LineCount(last.import_line, File) = LineCount(last.import_line, last.before)

\* a replacement occurred and the import line is no line of the file: the
\* file held it only inside a comment line
C9_ImportLineMissing ==
    /\ Rewritten /\ last.any_replaced
    /\ LineCount(last.import_line, File) = 0
    /\ Contains(CommentedImportLine, File)

IsImportLine(line) == LineStartsWith(line, "import ")
IsPackageLine(line) == LineStartsWith(line, "package ")

ImportInserted == Rewritten /\ File /= last.after_replace

\* C10: an inserted import line stands immediately after the last import
\* line if the file has any, otherwise immediately after the package line
\* if there is one, otherwise first; all other lines keep their content
\* and order.
C10_ImportPlacement ==
    ImportInserted =>
        LET old == SplitLines(last.after_replace)
            new == SplitLines(File)
            imports == {i \in 1..Len(old) : IsImportLine(old[i])}
            packages == {i \in 1..Len(old) : IsPackageLine(old[i])}
            k == IF imports /= {} THEN Max(imports) + 1
                 ELSE IF packages /= {} THEN Min(packages) + 1
                 ELSE 1
        IN  /\ Len(new) = Len(old) + 1
            /\ new[k] = last.import_line
            /\ SubSeq(new, 1, k - 1) = SubSeq(old, 1, k - 1)
            /\ SubSeq(new, k + 1, Len(new)) = SubSeq(old, k, Len(old))

\* an import line inserted after the last import of a file with a package
\* line, before a later line
C10_Witness ==
    /\ ImportInserted
    /\ LET old == SplitLines(last.after_replace)
       IN  /\ \E i \in 1..Len(old) : IsPackageLine(old[i])
           /\ \E i \in 2..Len(old) : IsImportLine(old[i]) /\ SplitLines(File)[i + 1] = last.import_line
                                     /\ i + 2 <= Len(SplitLines(File))

----------------------------------------------------------------------------
(* C2 - C5: the merger.                                                    *)

Merged == last.op = "merge"

\* an entry of a resource file: a string element's name, text and other
\* attributes
Entry(node) == [name |-> node.name, text |-> node.text, attrs |-> node.attrs]

RECURSIVE EntriesOf(_)
EntriesOf(children) ==
    IF children = <<>> THEN <<>>
    ELSE (IF Head(children).tag = "string" THEN <<Entry(Head(children))>> ELSE <<>>)
         \o EntriesOf(Tail(children))

\* the entry sequence of a resource file; an absent file and a file that
\* does not parse have none
Entries(doc) ==
    IF doc.exists /\ doc.wellformed THEN EntriesOf(doc.children) ELSE <<>>

EntryNames(doc) == {Entries(doc)[i].name : i \in 1..Len(Entries(doc))} \ {<<>>}

\* the proposed entries: the named records whose name the file did not hold
Proposed ==
    SelectSeq(last.strings, LAMBDA s : s.resource_name /= <<>>
                                       /\ s.resource_name \notin EntryNames(last.before))

\* C2: after a merge into a file with entry sequence E the file's entries
\* are E, with name, text and attributes as before and in the same order,
\* followed by the new entries in the order of the records: all the named
\* records when their names are disjoint from E's, those with a name not in
\* E otherwise.  A call that reports failure leaves the file as it was.
C2_MergeAppendOnly ==
    Merged =>
        LET E == Entries(last.before)
            after == Entries(xmls[last.path])
        IN  IF last.ret
            THEN /\ Len(after) = Len(E) + Len(Proposed)
                 /\ SubSeq(after, 1, Len(E)) = E
                 /\ \A i \in 1..Len(Proposed) :
                        /\ after[Len(E) + i].name = Proposed[i].resource_name
                        /\ after[Len(E) + i].attrs = <<>>
                        /\ Proposed[i].args = <<>> =>
                               after[Len(E) + i].text =
                                   IF last.lang = "zh" THEN Proposed[i].text
                                   ELSE Proposed[i].translation
            ELSE xmls[last.path] = last.before

\* two new entries appended, in the order of the records, after the entry
\* of a file that had one, all the names of the records being new
C2_Witness ==
    /\ Merged /\ last.ret
    /\ Len(Entries(last.before)) >= 1
    /\ Len(Proposed) = 2
    /\ \A i \in 1..Len(last.strings) :
           last.strings[i].resource_name \notin EntryNames(last.before) \cup {<<>>}
    /\ Len(Entries(xmls[last.path])) = Len(Entries(last.before)) + 2

\* C3: when a merge proposes an entry whose name the file holds with a
\* different text, the entries of that name are after the merge what they
\* were before it: the text is kept and no second entry of the name added.
C3_ExistingNameSkipped ==
    Merged =>
        \A i \in 1..Len(last.strings) :
            LET name == last.strings[i].resource_name
                OfName(e) == e.name = name
            IN  name \in EntryNames(last.before) =>
                    SelectSeq(Entries(xmls[last.path]), OfName) =
                        SelectSeq(Entries(last.before), OfName)

\* a merge that wrote, with a record whose name the file held with another
\* text
C3_Witness ==
    /\ Merged /\ last.ret /\ last.lang = "zh"
    /\ \E i \in 1..Len(last.strings) : \E j \in 1..Len(Entries(last.before)) :
           /\ last.strings[i].resource_name = Entries(last.before)[j].name
           /\ last.strings[i].resource_name /= <<>>
           /\ last.strings[i].text /= Entries(last.before)[j].text
    /\ Len(Proposed) >= 1

\* C4: when the set of entries to append is empty (every proposed name is
\* in the file, or no record has a resource name), the merger does not
\* write the resource file and returns False.
C4_NoWriteWhenNothingToAppend ==
    (Merged /\ Proposed = <<>>) =>
        /\ last.ret = FALSE
        /\ xmls[last.path] = last.before

\* nothing to append, and the file has been written and True returned
C4_WrittenAnyway ==
    /\ Merged /\ Proposed = <<>>
    /\ last.ret = TRUE
    /\ xmls[last.path].writes = last.before.writes + 1

NamesUnique(doc) ==
    \A i, j \in 1..Len(Entries(doc)) :
        (i /= j /\ Entries(doc)[i].name /= <<>>)
            => Entries(doc)[i].name /= Entries(doc)[j].name

\* C5: starting from files whose entry names are unique, after any sequence
\* of merges with any record lists no two entries of a file have the same
\* name.
C5_EntryNamesUnique == \A path \in DOMAIN xmls : NamesUnique(xmls[path])

\* one merge of two records of different texts and the same name has left
\* two entries of that name
C5_DuplicateName ==
    /\ Merged /\ phase.n = 1
    /\ last.strings = <<MergeZ, MergeSameName>>
    /\ ~NamesUnique(xmls[last.path])

----------------------------------------------------------------------------
(* C6, C7: extraction and the save pass.                                   *)

\* the positions in the scan's record list of the records with this id
Found(id) ==
    {k \in 1..Len(last.all_strings) : unique_id(last.all_strings[k]) = id}

\* C6: the list extract_all_strings returns holds no two records of the
\* same unique_id; the record it holds for a unique_id is the first one the
\* scan discovered, and every unique_id discovered has its record.
C6_UniqueIdsFirstKept ==
    last.op = "extract" =>
        /\ \A i, j \in 1..Len(current_strings) :
               i /= j => unique_id(current_strings[i]) /= unique_id(current_strings[j])
        /\ \A i \in 1..Len(current_strings) :
               /\ Found(unique_id(current_strings[i])) /= {}
               /\ current_strings[i] =
                      last.all_strings[Min(Found(unique_id(current_strings[i])))]
        /\ \A k \in 1..Len(last.all_strings) :
               \E i \in 1..Len(current_strings) :
                   unique_id(current_strings[i]) = unique_id(last.all_strings[k])

\* a text found in both files of one module and in a file of another
\* module: two records returned, the one of the module with two files
\* being that of the file scanned first
C6_Witness ==
    /\ last.op = "extract"
    /\ Len(current_strings) < Len(last.all_strings)
    /\ \E k1, k2, k3 \in 1..Len(last.all_strings) :
           /\ k1 < k2
           /\ unique_id(last.all_strings[k1]) = unique_id(last.all_strings[k2])
           /\ last.all_strings[k1].file_path /= last.all_strings[k2].file_path
           /\ last.all_strings[k3].text = last.all_strings[k1].text
           /\ last.all_strings[k3].module_name /= last.all_strings[k1].module_name
           /\ \E i, j \in 1..Len(current_strings) :
                  /\ current_strings[i] = last.all_strings[Min(Found(unique_id(last.all_strings[k1])))]
                  /\ current_strings[j] = last.all_strings[k3]

\* the record of the list with this id
Kept(id) ==
    current_strings[CHOOSE i \in 1..Len(current_strings) : unique_id(current_strings[i]) = id]

\* C7: when the scan found the same text in two different files of one
\* module, the list holds one record for it, and after a save pass in which
\* that record has a resource name (and a translation) the occurrence in
\* each of the two files is replaced by the reference expression.
C7_EveryFileRewritten ==
    last.op = "save" =>
        \A k1, k2 \in 1..Len(last.all_strings) :
            LET r1 == last.all_strings[k1]
                r2 == last.all_strings[k2]
            IN  (r1.file_path /= r2.file_path /\ unique_id(r1) = unique_id(r2)) =>
                    /\ Cardinality({i \in 1..Len(current_strings) :
                                       unique_id(current_strings[i]) = unique_id(r1)}) = 1
                    /\ (Kept(unique_id(r1)).resource_name /= <<>>) =>
                           \A p \in {r1.file_path, r2.file_path} :
                               /\ Contains(RefExpr(Kept(unique_id(r1))), files[p])
                               /\ \A q \in {DQ, SQ} :
                                      ~Contains(Quoted(q, r1.text), files[p])

\* the record of Z, found in A.kt and in B.kt, was named; the file stored in
\* the record holds the reference, the other file is as it was, "Z" still
\* in it
C7_OtherFileUntouched ==
    /\ last.op = "save"
    /\ \E k1, k2 \in 1..Len(last.all_strings) :
           LET r1 == last.all_strings[k1]
               r2 == last.all_strings[k2]
           IN  /\ unique_id(r1) = unique_id(r2)
               /\ Kept(unique_id(r1)).file_path = r1.file_path
               /\ r2.file_path /= r1.file_path
               /\ Kept(unique_id(r1)).resource_name /= <<>>
               /\ Contains(RefExpr(Kept(unique_id(r1))), files[r1.file_path])
               /\ files[r2.file_path] = last.files_before[r2.file_path]
               /\ Contains(Quoted(DQ, r1.text), files[r2.file_path])

----------------------------------------------------------------------------
(* C11: what the extractor keeps and what it drops.                        *)

\* the line a record says it comes from
LineOf(r) == SplitLines(files[r.file_path])[r.line_number]

\* a file the walk hands to extract_strings_from_file and that is read
Scanned(file_path) == IsKotlinFile(file_path) /\ ~IsBuildPath(file_path)

\* the contents of the quoted literals of a line, paired as a lexer does
QuotedLiterals(line) ==
    {SubSeq(line, sp[1] + 1, sp[2] - 1) : sp \in LiteralSpans(line, 1)}

\* the records of the list carry none of the excluded texts and come from
\* no excluded line
NoExcludedRecord ==
    \A i \in 1..Len(current_strings) :
        LET r == current_strings[i]
        IN  /\ r.text \notin ignored_strings
            /\ r.text \notin ExistingResources(xmls)
            /\ ~IsExcludedLine(LineOf(r))
            /\ ~HasResStringsRef(LineOf(r))

\* a quoted literal with a CJK character, on a line that is not excluded,
\* with a text that is neither ignored nor in a resource file
Qualifies(file_path, line, text) ==
    /\ Scanned(file_path)
    /\ ~IsExcludedLine(line) /\ ~HasResStringsRef(line)
    /\ text \in QuotedLiterals(line)
    /\ ContainsChinese(text)
    /\ text \notin ignored_strings
    /\ text \notin ExistingResources(xmls)

HasRecord(file_path, text) ==
    \E i \in 1..Len(current_strings) :
        /\ current_strings[i].text = text
        /\ current_strings[i].module_name = ModuleOf(file_path)

\* C11: no record of the list the extractor returns has a text of the
\* ignore list loaded at its start, a text that a resource file holds, or
\* a line that matches an exclusion pattern or holds a ResStrings
\* reference; every other quoted literal with a CJK character on a line of
\* a scanned file has a record of its module and text in the list.
C11_ExtractorFilter ==
    last.op = "extract" =>
        /\ NoExcludedRecord
        /\ \A p \in DOMAIN files : \A k \in 1..Len(SplitLines(files[p])) :
               \A text \in QuotedLiterals(SplitLines(files[p])[k]) :
                   Qualifies(p, SplitLines(files[p])[k], text) => HasRecord(p, text)

\* the line "a"+'Z'+"W": the literal "W" qualifies and has no record; the
\* list holds a record for the text between the first and the third
\* literal instead
C11_LiteralMissed ==
    /\ last.op = "extract"
    /\ \E p \in DOMAIN files :
           /\ SplitLines(files[p])[1] =
                  <<DQ, "a", DQ, "+", SQ, "Z", SQ, "+", DQ, "W", DQ>>
           /\ Qualifies(p, SplitLines(files[p])[1], <<"W">>)
           /\ ~HasRecord(p, <<"W">>)
           /\ HasRecord(p, <<"+", SQ, "Z", SQ, "+">>)

----------------------------------------------------------------------------
(* C12: the arguments the extractor builds.                                *)

\* the first character of an identifier of the source language
IsIdentifierStart(c) == (IsAsciiLetter(c) \/ IsChineseChar(c)) /\ ~IsDigit(c)

RECURSIVE PlaceholderExprs(_, _)
\* the placeholders of a text, in order of appearance, each as its
\* expression: ${expr} up to the first closing brace, or $ident, a dollar
\* sign and the identifier that follows it
PlaceholderExprs(s, i) ==
    IF i > Len(s) THEN <<>>
    ELSE IF s[i] /= "$" THEN PlaceholderExprs(s, i + 1)
    ELSE IF BraceEnd(s, i) > 0
         THEN <<SubSeq(s, i + 2, BraceEnd(s, i) - 1)>>
                  \o PlaceholderExprs(s, BraceEnd(s, i) + 1)
    ELSE IF i + 1 <= Len(s) /\ IsIdentifierStart(s[i + 1])
         THEN <<SubSeq(s, i + 1, WordEnd(s, i + 1))>>
                  \o PlaceholderExprs(s, WordEnd(s, i + 1) + 1)
    ELSE PlaceholderExprs(s, i + 1)

\* one pair per placeholder: the expression as the name when it is an
\* identifier, argN for the N-th placeholder otherwise
PairsOf(exprs) ==
    [n \in 1..Len(exprs) |->
        [name |-> IF IsIdentifier(exprs[n]) THEN exprs[n]
                  ELSE <<"a", "r", "g">> \o Decimal(n),
         value |-> exprs[n]]]

\* C12: the args of every record the extractor returns are one pair per
\* placeholder of its text (${expr} or $ident), in order of appearance,
\* the name being the expression when that is an identifier and argN, N
\* the 1-based position of the placeholder, otherwise; every name is an
\* identifier.
C12_PlaceholderArgs ==
    last.op = "extract" =>
        \A i \in 1..Len(current_strings) :
            /\ current_strings[i].args = PairsOf(PlaceholderExprs(current_strings[i].text, 1))
            /\ \A k \in 1..Len(current_strings[i].args) :
                   IsIdentifier(current_strings[i].args[k].name)

\* the literal "Z$1" holds no placeholder, and its record has the pair
\* {arg1, 1}
C12_PairForDollarDigit ==
    /\ last.op = "extract"
    /\ \E i \in 1..Len(current_strings) :
           /\ current_strings[i].text = <<"Z", "$", "1">>
           /\ PlaceholderExprs(current_strings[i].text, 1) = <<>>
           /\ current_strings[i].args =
                  <<[name |-> <<"a", "r", "g", "1">>, value |-> <<"1">>]>>

\* the literal "Z${a.g}$n" has the pairs {arg1, a.g} and {n, n}
C12_PairsInOrder ==
    /\ last.op = "extract"
    /\ \E i \in 1..Len(current_strings) :
           /\ current_strings[i].text = <<"Z", "$", "{", "a", ".", "g", "}", "$", "n">>
           /\ current_strings[i].args =
                  <<[name |-> <<"a", "r", "g", "1">>, value |-> <<"a", ".", "g">>],
                    [name |-> <<"n">>, value |-> <<"n">>]>>

----------------------------------------------------------------------------
(* C13: the reference expression of the default hook.                      *)

RECURSIVE NamedArguments(_)
\* 'name = (value).toString()' for each arg in order, separated by ', '
NamedArguments(args) ==
    IF args = <<>> THEN <<>>
    ELSE Head(args).name \o <<" = (">> \o Head(args).value \o <<").toString()">>
             \o (IF Len(args) = 1 THEN <<>>
                 ELSE <<", ">> \o NamedArguments(Tail(args)))

\* the args of a record: its own when it has any, the placeholders the
\* extractor parses from its text otherwise
ArgsInUse(s) == IF s.args /= <<>> THEN s.args ELSE ExtractArgs(s.text)

\* the bare reference, or the call expression
Reference(s) ==
    IF ArgsInUse(s) = <<>> THEN <<"ResStrings.">> \o s.resource_name
    ELSE <<"ResStrings.">> \o s.resource_name \o <<".format(">>
             \o NamedArguments(ArgsInUse(s)) \o <<")">>

\* the quoted literals of the record's text in the file before the call
\* are the expression in the file after it
LiteralBecomes(s, expr) ==
    \A q \in {DQ, SQ} :
        Contains(Quoted(q, s.text), last.before) =>
            /\ Contains(expr, File)
            /\ ~Contains(Quoted(q, s.text), File)

DefaultRewritten ==
    /\ Rewritten /\ ~last.propagated
    /\ last.hooks.get_replaced_text = "default"

\* C13: with the default hooks the expression that replaces the literal of
\* a named record is ResStrings.<resource_name> when the record has no
\* args and its text no placeholder, and otherwise
\* ResStrings.<resource_name>.format(...) with 'name = (value).toString()'
\* for each arg in order, the args being the record's own when it has any
\* and the placeholders parsed from its text otherwise.
C13_DefaultReference ==
    DefaultRewritten =>
        \A i \in NamedIndexes :
            /\ ReplacedExpr(last.hooks, current_strings[i]) = Reference(current_strings[i])
            /\ LiteralBecomes(current_strings[i], Reference(current_strings[i]))

\* the literal "W${n}" of a record with the arg {g, n} has become
\* ResStrings.n2.format(g = (n).toString())
C13_Witness ==
    /\ DefaultRewritten
    /\ \E i \in NamedIndexes : current_strings[i] = RecRenamedArg
    /\ Contains(Quoted(DQ, RecRenamedArg.text), last.before)
    /\ Contains(<<"=", "ResStrings.", "n", "2", ".format(", "g", " = (", "n",
                   ").toString()", ")", NL>>, File)

\* the literal "Z" of a record without args and without placeholders has
\* become ResStrings.n1
C13_BareReference ==
    /\ DefaultRewritten
    /\ \E i \in NamedIndexes : current_strings[i] = RecZ
    /\ Contains(Quoted(DQ, RecZ.text), last.before)
    /\ Contains(<<"=", "ResStrings.", "n", "1", NL>>, File)

\* the placeholders of a text without args of its own have been used:
\* 'Z${a.g}$n' has become
\* ResStrings.n3.format(arg1 = (a.g).toString(), n = (n).toString())
C13_ParsedPlaceholdersUsed ==
    /\ DefaultRewritten
    /\ \E i \in NamedIndexes : current_strings[i] = RecTwoPlaceholders
    /\ Contains(<<"ResStrings.", "n", "3", ".format(", "a", "r", "g", "1", " = (",
                   "a", ".", "g", ").toString()", ", ", "n", " = (", "n",
                   ").toString()", ")">>, File)

----------------------------------------------------------------------------
(* C14: the normalization with identity args.                              *)

\* C14: for any text, the result of formatting it with the args
\* [{name: count, value: count}] is left as it is by a normalization with
\* the same args.
C14_NormalizeFixedPoint ==
    (last.op = "normalize" /\ phase.n >= 2) => current_strings[1].text = last.before

\* a text that holds ${count} and ends with $count has been formatted and
\* normalized again
C14_Witness ==
    /\ last.op = "normalize" /\ phase.n >= 2
    /\ Contains(<<"$", "{">> \o Count \o <<"}">>, last.before)
    /\ MatchAt(<<"$">> \o Count, last.before, Len(last.before) - Len(Count))

----------------------------------------------------------------------------
(* C15: the text of an appended entry.                                     *)

RECURSIVE BracedForm(_, _)
\* the text with every ${value} and every bare $value of the args written
\* ${name}
BracedForm(text, args) ==
    IF args = <<>> THEN text
    ELSE LET name == Head(args).name
             value == Head(args).value
             braced == Subn(<<"$", "{">> \o value \o <<"}">>,
                            <<"$", "{">> \o name \o <<"}">>, text).out
         IN  BracedForm(IF IsIdentifier(value)
                        THEN SubWordFrom(<<"$">> \o value,
                                         <<"$", "{">> \o name \o <<"}">>,
                                         braced, 1, <<>>)
                        ELSE braced,
                        Tail(args))

\* the text a record brings to the file of a language
BaseText(s, lang) == IF lang = "zh" THEN s.text ELSE s.translation

\* C15: with the default XML formatter, the text of every appended entry
\* whose record has args is the record's text (the translation in a file
\* of another language) with each ${value} and each bare $value of the
\* args written ${name}.
C15_AppendedTextBraced ==
    (Merged /\ last.ret) =>
        LET E == Entries(last.before)
            after == Entries(xmls[last.path])
        IN  \A i \in 1..Len(Proposed) :
                Proposed[i].args /= <<>> =>
                    after[Len(E) + i].text =
                        BracedForm(BaseText(Proposed[i], last.lang), Proposed[i].args)

\* the record with the translation $g and the arg {n, g} has been appended
\* to the en file with the text $n, and to the zh file, where its text is
\* ${g}Z, with the text ${n}Z
C15_BareLeftBare ==
    /\ Merged /\ last.ret /\ last.lang = "en"
    /\ \E i \in 1..Len(Proposed) :
           /\ Proposed[i] = MergeWithArgs
           /\ BaseText(MergeWithArgs, "en") = <<"$", "g">>
           /\ Entries(xmls[last.path])[Len(Entries(last.before)) + i].text = <<"$", "n">>

\* the braced placeholder of the same record in the zh file
C15_BracedRenamed ==
    /\ Merged /\ last.ret /\ last.lang = "zh"
    /\ \E i \in 1..Len(Proposed) :
           /\ Proposed[i] = MergeWithArgs
           /\ Entries(xmls[last.path])[Len(Entries(last.before)) + i].text =
                  <<"$", "{", "n", "}", "Z">>

----------------------------------------------------------------------------
(* C16: what the hook loader returns.                                      *)

Loaded == last.op = "load"

AllDefaults(hooks) == \A h \in HookNames : hooks[h] = "default"

\* each hook is the function of the script when the script has bound a
\* callable to its name, and the default otherwise
HooksFollowScript(script, hooks) ==
    \A h \in HookNames :
        hooks[h] = IF script.defs[h] = "function" THEN "script" ELSE "default"

\* C16: the loader returns the three defaults for an empty script; for a
\* script that evaluates, each hook is the script's function when the
\* script defines a callable of that name and the default otherwise,
\* whatever the other two are; for a script whose evaluation fails, the
\* three defaults are returned and no error reaches the caller.
C16_LoaderContract ==
    Loaded =>
        /\ ~last.propagated
        /\ last.script.blank => AllDefaults(last.hooks)
        /\ (~last.script.blank /\ last.script.fails = "no") =>
               HooksFollowScript(last.script, last.hooks)
        /\ (~last.script.blank /\ last.script.fails /= "no") =>
               AllDefaults(last.hooks)

\* a script whose evaluation ends with an exception that is no Exception
\* (SystemExit): the exception has left the loader
C16_ErrorPropagates ==
    /\ Loaded
    /\ ~last.script.blank
    /\ last.script.fails = "BaseException"
    /\ last.propagated

\* the rest of the claim: everything it says of the scripts whose
\* evaluation does not end that way
C16_ExceptBaseException ==
    (Loaded /\ last.script.fails /= "BaseException") => C16_LoaderContract

\* a script that overrides the reference formatter only, with a value that
\* is no callable bound to the name of the XML formatter
C16_PartialOverride ==
    /\ Loaded /\ ~last.propagated
    /\ last.script.fails = "no"
    /\ last.script.defs["get_replaced_text"] = "function"
    /\ last.script.defs["get_import_statements"] = "absent"
    /\ last.script.defs["format_xml_text"] = "truthy"
    /\ last.hooks.get_replaced_text = "script"
    /\ last.hooks.get_import_statements = "default"
    /\ last.hooks.format_xml_text = "default"

\* a script that fails after it has defined the three functions
C16_FailedScriptDefaults ==
    /\ Loaded /\ ~last.propagated
    /\ last.script.fails = "Exception"
    /\ \A h \in HookNames : last.script.defs[h] = "function"
    /\ AllDefaults(last.hooks)

----------------------------------------------------------------------------
(* C17: a reference formatter that raises.                                 *)

\* the rewriter has run with the get_replaced_text of a script
ScriptRewritten ==
    /\ Rewritten /\ ~last.propagated
    /\ last.hooks.get_replaced_text = "script"

HookRaisesFor(s) == s.resource_name \in last.script.raises_for

\* the reference built from the resource name only
BareReference(s) == <<"ResStrings.">> \o s.resource_name

\* what the function of the script returns for the record
ScriptReference(s) == <<"R.">> \o s.resource_name

C17_AllRaise ==
    /\ ScriptRewritten
    /\ current_strings = <<RecPlaceholder, RecZ>>
    /\ HookRaisesFor(RecZ) /\ HookRaisesFor(RecPlaceholder)
    /\ Contains(BareReference(RecZ) \o <<"+">> \o BareReference(RecPlaceholder), File)

----------------------------------------------------------------------------
(* C18: malformed files of the project.                                    *)

\* /api/extract has been asked about the project
ProjectExtracted == last.op = "extract" /\ last.root = "project"

IgnoreListMalformed == LoadIgnoredStrings(files).raised

\* the ignore set of the project, a malformed list counting as empty
RecoveredIgnoreSet ==
    IF IgnoreListMalformed THEN {} ELSE LoadIgnoredStrings(files).value

\* the resource files, a malformed one counting as absent
RecoveredResources ==
    [p \in DOMAIN xmls |-> IF xmls[p].exists /\ ~xmls[p].wellformed THEN AbsentDoc
                            ELSE xmls[p]]

\* C18: an extraction of a project whose ignored_strings.json or whose
\* resource file is malformed raises no error and yields the records it
\* yields with an empty ignore set, and without the entries of the
\* malformed resource file.
C18_MalformedIsRecoverable ==
    ProjectExtracted =>
        /\ last.status = 200
        /\ current_strings =
               ExtractAllStrings(files, last.order, RecoveredIgnoreSet,
                                 ExistingResources(RecoveredResources))

\* the ignore list is cut off before its closing bracket: the extraction
\* is answered with 500 and the service has no record of the project
C18_MalformedIgnoreListFails ==
    /\ ProjectExtracted
    /\ IgnorePath \in DOMAIN files
    /\ files[IgnorePath] = <<"[", NL, SP, SP, DQ, "W", DQ>>
    /\ last.status = 500
    /\ current_strings = <<>>
    /\ ExtractAllStrings(files, last.order, {}, ExistingResources(xmls)) /= <<>>

\* the resource file with the entry Z is malformed: the literal "Z" of the
\* source file has a record
C18_MalformedResourceSkipped ==
    /\ ProjectExtracted
    /\ last.status = 200
    /\ xmls = MalformedZhResources
    /\ \E i \in 1..Len(current_strings) : current_strings[i].text = <<"Z">>

\* the rest of the claim: the extraction of a project whose ignore list
\* loads
C18_WithLoadableIgnoreList ==
    (ProjectExtracted /\ ~IgnoreListMalformed) => C18_MalformedIsRecoverable

\* the ignore list that a save has written loads as the set it was
\* written from
C18_WrittenListLoads ==
    /\ last.op = "save" /\ last.status = 200
    /\ IgnorePath \notin DOMAIN last.before.files
    /\ IgnorePath \in DOMAIN files
    /\ ~LoadIgnoredStrings(files).raised
    /\ LoadIgnoredStrings(files).value = {<<"W">>}
    /\ ignored_strings = {<<"W">>}

----------------------------------------------------------------------------
(* C19: a root that does not exist.                                        *)

MissingRootRequest == last.op \in {"extract", "save"} /\ last.root = "missing"

\* C19: an extract or a save request that names a root that does not exist
\* is answered with an error and changes nothing: no file, no resource
\* file, and not the records of the service.
C19_MissingRootIsError ==
    MissingRootRequest =>
        /\ last.status /= 200
        /\ Snapshot = last.before

\* an extraction under a root that does not exist, after an extraction of
\* the project: answered with success, the records of the service gone
C19_EmptySuccess ==
    /\ last.op = "extract" /\ last.root = "missing"
    /\ last.status = 200
    /\ last.before.current_strings /= <<>>
    /\ current_strings = <<>>

\* a save under a root that does not exist: answered with 400, nothing
\* changed
C19_SaveRejected ==
    /\ last.op = "save" /\ last.root = "missing"
    /\ last.status = 400
    /\ last.before.current_strings /= <<>>
    /\ Snapshot = last.before

\* the half of the claim about save
C19_SaveHalf ==
    (MissingRootRequest /\ last.op = "save") => C19_MissingRootIsError

----------------------------------------------------------------------------
(* C20: results of a translation batch that are no use.                    *)

\* a translation handler has been asked with an API key
TranslationAsked ==
    /\ last.op \in {"translate_batch", "translate"}
    /\ last.has_key

\* the indexes of the batch whose id is the id of a record
BatchIndexes == {i \in 1..Len(last.selected_ids) : HasId(last.before, last.selected_ids[i])}

HasText(field) == field.state = "str" /\ Strip(field.value) /= <<>>

\* the name of a result, under either key
ResultName(trans) == IF HasText(trans.name) THEN trans.name ELSE trans.resource_name

\* a structured object with a translated string and a resource name
WellFormedResult(trans) ==
    /\ trans.kind = "dict"
    /\ HasText(trans.translation)
    /\ HasText(ResultName(trans))

\* the batch has a well-formed result at the index
HasGoodResult(i) == i <= Len(last.results) /\ WellFormedResult(last.results[i])

KeepsNameAndTranslation(unique) ==
    /\ ById(current_strings, unique).resource_name = ById(last.before, unique).resource_name
    /\ ById(current_strings, unique).translation = ById(last.before, unique).translation

UpdatedFrom(unique, trans) ==
    /\ ById(current_strings, unique).resource_name = ResultName(trans).value
    /\ ById(current_strings, unique).translation = trans.translation.value

\* C20: in a translation batch, the record at an index whose result is
\* missing, is no structured object, or lacks the translated string or the
\* resource name keeps its resource name and its translation, and every
\* record at an index with a well-formed result is updated from it.
C20_BadResultIsolated ==
    TranslationAsked =>
        \A i \in BatchIndexes :
            IF HasGoodResult(i)
            THEN UpdatedFrom(last.selected_ids[i], last.results[i])
            ELSE KeepsNameAndTranslation(last.selected_ids[i])

\* /api/translate_batch with a result whose translation is null, then a
\* well-formed result: answered with 500, the second record not updated
C20_NullFieldAbortsBatch ==
    /\ TranslationAsked /\ last.op = "translate_batch"
    /\ last.before = <<RecUnnamed, RecZ>>
    /\ last.selected_ids = <<unique_id(RecUnnamed), unique_id(RecZ)>>
    /\ last.results = <<DictResult(NullField, StrField(<<"a">>), AbsentField, AbsentField),
                        OkResult>>
    /\ last.status = 500
    /\ current_strings = last.before

\* /api/translate with a result that has neither field: the name and the
\* translation of the record are overwritten with the empty string
C20_MissingFieldsOverwrite ==
    /\ TranslationAsked /\ last.op = "translate"
    /\ last.before = <<RecZ>>
    /\ last.results = <<DictResult(AbsentField, AbsentField, AbsentField, AbsentField)>>
    /\ last.status = 200
    /\ RecZ.resource_name /= <<>>
    /\ current_strings[1].resource_name = <<>>
    /\ current_strings[1].translation = <<>>

\* /api/translate with a result that is no structured object, after a
\* well-formed one: answered with 500, the records after it not updated
C20_StringResultAborts ==
    /\ TranslationAsked /\ last.op = "translate"
    /\ Len(last.selected_ids) = 2 /\ Len(last.before) = 2
    /\ last.results = <<StrResult, OkResult>>
    /\ last.status = 500
    /\ current_strings = last.before

HasNullField(trans) ==
    "null" \in {trans.translation.state, trans.name.state, trans.resource_name.state}

\* the part of the claim that holds: /api/translate_batch with results
\* none of whose fields is null
C20_BatchWithoutNull ==
    (/\ last.op = "translate_batch"
     /\ \A i \in 1..Len(last.results) : ~HasNullField(last.results[i]))
        => C20_BadResultIsolated

\* /api/translate_batch with a string where a result should be, then a
\* well-formed result: the first record is kept, the second updated
C20_BatchSkipsBadResult ==
    /\ TranslationAsked /\ last.op = "translate_batch"
    /\ last.before = <<RecZ, RecUnnamed>>
    /\ last.selected_ids = <<unique_id(RecZ), unique_id(RecUnnamed)>>
    /\ last.results = <<StrResult, OkResult>>
    /\ last.status = 200
    /\ current_strings[1] = RecZ
    /\ current_strings[2].resource_name = <<"a">>
    /\ current_strings[2].translation = <<"T">>

----------------------------------------------------------------------------
(* C21: the files that are scanned.                                        *)

GlobsExtracted == last.op = "extract" /\ "extraction_globs" \in DOMAIN last

\* the inclusion patterns: those of the caller, or the default source-file
\* pattern
InclusionPatterns ==
    IF last.extraction_globs = <<>> THEN {<<"**", "*.kt">>}
    ELSE {last.extraction_globs[i] : i \in 1..Len(last.extraction_globs)}

Included(path) == \E pattern \in InclusionPatterns : RGlobMatches(pattern, path)

\* every file of the project holds a literal of its own, so the file has
\* been scanned exactly when the literal has a record
WasScanned(path) ==
    \E i \in 1..Len(current_strings) :
        /\ current_strings[i].file_path = path
        /\ current_strings[i].text = LiteralOfPath(path)

\* C21: a file is scanned exactly when an inclusion pattern matches it and
\* no segment of its path is build, .gradle or node_modules, whatever its
\* extension.
C21_ScannedIffIncluded ==
    GlobsExtracted =>
        \A path \in DOMAIN files :
            WasScanned(path) <=> (Included(path) /\ ~IsBuildPath(path))

\* the caller asks for '**/*.kts': the script file is matched and not
\* scanned
C21_MatchedFileNotScanned ==
    /\ GlobsExtracted
    /\ last.extraction_globs = <<<<"**", "*.kts">>>>
    /\ Included(PathScript) /\ ~IsBuildPath(PathScript)
    /\ ~WasScanned(PathScript)
    /\ current_strings = <<>>

\* the part of the claim about build directories
C21_BuildNeverScanned ==
    GlobsExtracted =>
        \A path \in DOMAIN files : IsBuildPath(path) => ~WasScanned(path)

\* the claim for the files with the suffix .kt
C21_KotlinFiles ==
    GlobsExtracted =>
        \A path \in {f \in DOMAIN files : SuffixOf(f[Len(f)]) = ".kt"} :
            WasScanned(path) <=> (Included(path) /\ ~IsBuildPath(path))

\* the file under login/build is matched by '*' and has no record, the
\* source file beside it has one
C21_BuildFileSkipped ==
    /\ GlobsExtracted
    /\ last.extraction_globs = <<<<"*">>>>
    /\ Included(PathBuild) /\ ~WasScanned(PathBuild)
    /\ WasScanned(RewritePath)

----------------------------------------------------------------------------
(* C22: the line number and the module name of a record.                   *)

\* the numbers of the lines of a file that hold the quoted literal
LinesWith(path, text) ==
    {n \in 1..Len(SplitLines(files[path])) :
        \E q \in {DQ, SQ} : Contains(Quoted(q, text), SplitLines(files[path])[n])}

\* the first segment of a path, 'common' for a path without segments
FirstSegment(path) == IF Len(path) = 0 THEN "common" ELSE path[1]

RecordsOfFile(path) ==
    {i \in 1..Len(current_strings) : current_strings[i].file_path = path}

\* C22: the line number of every record is the 1-based number of a line
\* of its file that holds its literal, its module name is the first
\* segment of its path, and a scanned file with one literal yields one
\* record.
C22_LineAndModule ==
    GlobsExtracted =>
        /\ \A i \in 1..Len(current_strings) :
               /\ current_strings[i].line_number \in
                      LinesWith(current_strings[i].file_path, current_strings[i].text)
               /\ current_strings[i].module_name = FirstSegment(current_strings[i].file_path)
        /\ \A path \in DOMAIN files :
               WasScanned(path) => Cardinality(RecordsOfFile(path)) = 1

\* the literal of login/A.kt stands on the second line, the literal of
\* C.kt on the first: one record each, with that line number, of the
\* modules login and C.kt
C22_Witness ==
    /\ GlobsExtracted
    /\ LinesWith(RewritePath, LiteralOfPath(RewritePath)) = {2}
    /\ \E i \in 1..Len(current_strings) :
           /\ current_strings[i].file_path = RewritePath
           /\ current_strings[i].line_number = 2
           /\ current_strings[i].module_name = "login"
    /\ \E i \in 1..Len(current_strings) :
           /\ current_strings[i].file_path = PathRoot
           /\ current_strings[i].line_number = 1
           /\ current_strings[i].module_name = "C.kt"

----------------------------------------------------------------------------
(* C23: the ignore set.                                                    *)

\* /api/save has been answered with success
Saved == last.op = "save" /\ last.status = 200

\* the ignore list as it loads from the file
PersistedIgnoreSet == LoadIgnoredStrings(files).value

NoIgnoredRecord ==
    \A i \in 1..Len(current_strings) : current_strings[i].text \notin ignored_strings

\* C23: a save with texts to ignore leaves as the persisted ignore list
\* the set the extractor held before united with the submitted texts, and
\* the list loads back as that set; an extraction starts from the
\* persisted list and yields no record whose text is in it.  (The set the
\* extractor holds is the set it loaded at its start united with the texts
\* of the saves since: each save adds its texts to it.)
C23_IgnoreSetGrowsByUnion ==
    /\ (Saved /\ last.ignored /= {}) =>
           /\ ~LoadIgnoredStrings(files).raised
           /\ PersistedIgnoreSet = last.before.ignored_strings \cup last.ignored
           /\ ignored_strings = PersistedIgnoreSet
    /\ (last.op = "save" /\ last.root = "project") =>
           ignored_strings = last.before.ignored_strings \cup last.ignored
    /\ (ProjectExtracted /\ last.status = 200) =>
           /\ ignored_strings = PersistedIgnoreSet
           /\ NoIgnoredRecord

\* the extractor loaded ["W"], a save has added Z: the list on disk loads
\* as {W, Z}
C23_Witness ==
    /\ Saved
    /\ last.before.ignored_strings = {<<"W">>}
    /\ last.ignored = {<<"Z">>}
    /\ IgnorePath \in DOMAIN files
    /\ PersistedIgnoreSet = {<<"W">>, <<"Z">>}

\* an extraction after such a save: the source file holds the literals
\* "Z" and "W" and no record is left
C23_NothingLeftToExtract ==
    /\ ProjectExtracted /\ last.status = 200
    /\ ignored_strings = {<<"W">>, <<"Z">>}
    /\ IgnorePath \in DOMAIN files
    /\ files[RewritePath] = FileText(<<<<"x", "=", DQ, "Z", DQ>>, <<"x", "=", DQ, "W", DQ>>>>)
    /\ current_strings = <<>>

----------------------------------------------------------------------------
(* C24: reference pairs.                                                   *)

ReferencesExtracted == last.op = "references"

\* the named string entries of a resource file
NamedTexts(doc, name) ==
    IF doc.exists /\ doc.wellformed
    THEN {doc.children[k].text : k \in
             {j \in 1..Len(doc.children) :
                 doc.children[j].tag = "string" /\ doc.children[j].name = name}}
    ELSE {}

\* the pair comes from the two files of its module: its name is in both,
\* its source text has a CJK character, its target text is not blank
WellFounded(pair) ==
    /\ pair.source \in NamedTexts(xmls[XmlPath(pair.module, "zh")], pair.resource_name)
    /\ pair.target \in NamedTexts(xmls[XmlPath(pair.module, "en")], pair.resource_name)
    /\ ContainsChinese(pair.source)
    /\ \E k \in 1..Len(pair.target) : ~IsSpace(pair.target[k])

\* C24: extract_reference_translations returns at most limit pairs, for
\* every limit, 0 included, and every pair has a name that both files of
\* its module hold, a source text with a CJK character and a target text
\* that is not blank.
C24_AtMostLimitPairs ==
    ReferencesExtracted =>
        /\ Len(last.references) <= last.limit
        /\ \A k \in 1..Len(last.references) : WellFounded(last.references[k])

\* a pair is returned for the limit 0
C24_PairForLimitZero ==
    /\ ReferencesExtracted
    /\ last.limit = 0
    /\ Len(last.references) = 1

\* the part of the claim that holds: the pairs themselves, and the number
\* of pairs for a limit of 1 or more
C24_PositiveLimit ==
    ReferencesExtracted =>
        /\ last.limit >= 1 => Len(last.references) <= last.limit
        /\ \A k \in 1..Len(last.references) : WellFounded(last.references[k])

\* two modules with two pairs each and the limit 2: the two pairs of the
\* module that comes first
C24_LimitCutsOff ==
    /\ ReferencesExtracted
    /\ last.limit = 2
    /\ Len(last.references) = 2
    /\ last.references[1].module = "home" /\ last.references[2].module = "home"
    /\ Len(ParseStringsXml(xmls[XmlPath("login", "zh")])) = 2
    /\ Len(ParseStringsXml(xmls[XmlPath("login", "en")])) = 2

----------------------------------------------------------------------------
(* C25: the result a record receives.                                      *)

\* the index at which the text of record k was sent to the translation
\* service: its place among the selected records, which are sent in the
\* order of current_strings
SentIndex(k) ==
    Cardinality({j \in 1..k :
                    \E i \in 1..Len(last.selected_ids) :
                        last.selected_ids[i] = unique_id(last.before[j])})

\* the record holds the translation and the name of the result
ReceivedFrom(s, trans) ==
    /\ trans.kind = "dict"
    /\ s.translation = Stored(GetOrEmpty(trans.translation))
    /\ s.resource_name = Stored(NameField(trans))

\* C25: for every list of selected ids, in any order and with ids of no
\* record among them, each record a translation handler updates receives
\* the result at the index at which its own text was sent.
C25_ResultOfOwnText ==
    TranslationAsked =>
        \A k \in 1..Len(last.before) :
            current_strings[k] /= last.before[k] =>
                /\ SentIndex(k) <= Len(last.results)
                /\ ReceivedFrom(current_strings[k], last.results[SentIndex(k)])

\* two records selected in the reverse of their order in current_strings:
\* the first record holds the result of the text of the second
C25_ResultOfOtherText ==
    /\ TranslationAsked /\ last.status = 200
    /\ last.before = <<RecZ, RecUnnamed>>
    /\ last.selected_ids = <<unique_id(RecUnnamed), unique_id(RecZ)>>
    /\ last.results = <<OkResult,
                        DictResult(StrField(<<"T">>), AbsentField, StrField(<<"g">>),
                                   ListField(<<[name |-> <<"n">>, value |-> <<"n">>]>>))>>
    /\ current_strings[1].resource_name = <<"g">>
    /\ current_strings[2].resource_name = <<"a">>

\* the selected ids are the ids of the selected records, in the order of
\* current_strings
InExtractionOrder ==
    last.selected_ids =
        [i \in 1..Len(SelectedStrings(last.before, last.selected_ids)) |->
            unique_id(SelectedStrings(last.before, last.selected_ids)[i])]

\* the part of the claim that holds: ids of records, in the order of
\* current_strings
C25_InOrderAligned ==
    (TranslationAsked /\ InExtractionOrder) => C25_ResultOfOwnText

\* two records selected in their order, each updated from its own result
C25_AlignedUpdate ==
    /\ TranslationAsked /\ last.status = 200
    /\ InExtractionOrder
    /\ Len(last.before) = 2 /\ Len(last.selected_ids) = 2
    /\ Len(last.results) = 2
    /\ last.results[1] = OkResult /\ last.results[2] /= OkResult
    /\ current_strings[1].resource_name = <<"a">>
    /\ current_strings[2].resource_name = <<"g">>

\* the id of no record before the id of a record: the record holds the
\* second result, its text was the first that was sent
C25_ShiftedByUnknownId ==
    /\ TranslationAsked /\ last.status = 200
    /\ last.before = <<RecZ>>
    /\ last.selected_ids = <<GhostId, unique_id(RecZ)>>
    /\ Len(last.results) = 2 /\ last.results[1] = OkResult
    /\ current_strings[1].resource_name = <<"g">>

----------------------------------------------------------------------------
(* C26: references the save pass writes and the entries they name.         *)

\* the save pass has put the reference of the record where its literal was
RewrittenInto(s) ==
    /\ s.resource_name /= <<>>
    /\ Contains(Quoted(DQ, s.text), last.before.files[s.file_path])
    /\ ~Contains(Quoted(DQ, s.text), files[s.file_path])
    /\ Contains(RefExpr(s), files[s.file_path])

\* the zh file of the module of the record has an entry of the name of the
\* record with its text
HasEntryFor(s) ==
    XmlText(s, "zh") \in NamedTexts(xmls[XmlPath(ModuleOf(s.file_path), "zh")],
                                    s.resource_name)

\* C26: whenever the save pass has rewritten a literal into the reference
\* to a resource name, the zh resource file of the module holds, after the
\* pass, an entry of that name whose text is the literal, also when the
\* merge fails or skips the entry.
C26_NoDanglingReference ==
    Saved =>
        \A k \in 1..Len(current_strings) :
            RewrittenInto(current_strings[k]) => HasEntryFor(current_strings[k])

\* a save without a path template: the literal is rewritten, the module
\* has no zh file
C26_DanglingReference ==
    /\ Saved /\ last.template = "none"
    /\ \E k \in 1..Len(current_strings) :
           /\ RewrittenInto(current_strings[k])
           /\ ~xmls[XmlPath(ModuleOf(current_strings[k].file_path), "zh")].exists

\* the name of the record is the name of no entry that the zh file of its
\* module held before the pass
FreshName(s) ==
    NamedTexts(last.before.xmls[XmlPath(ModuleOf(s.file_path), "zh")],
               s.resource_name) = {}

\* the part of the claim that holds: a path template is given and the
\* name is new to the file
C26_MergedThenRewritten ==
    (Saved /\ last.template = "ok") =>
        \A k \in 1..Len(current_strings) :
            (RewrittenInto(current_strings[k]) /\ FreshName(current_strings[k]))
                => HasEntryFor(current_strings[k])

\* a literal rewritten and its entry appended to a file that did not parse
C26_EntryWritten ==
    /\ Saved /\ last.template = "ok"
    /\ ~last.before.xmls[XmlPath("login", "zh")].wellformed
    /\ \E k \in 1..Len(current_strings) :
           /\ RewrittenInto(current_strings[k])
           /\ HasEntryFor(current_strings[k])

----------------------------------------------------------------------------
(* C27: extract, name, save, extract again.                                *)

ExtractedAgain == last.op = "extract_again"

\* the fresh extraction has a record of the text in the file
Reported(text, path) ==
    \E k \in 1..Len(last.all_strings) :
        last.all_strings[k].text = text /\ last.all_strings[k].file_path = path

\* C27: after records have been given a resource name and a translation
\* and the save pass has completed, a fresh extraction over the same root
\* yields no record for a saved text, and no scanned file still holds a
\* saved literal that is neither rewritten nor reported.
C27_PipelineConverges ==
    ExtractedAgain =>
        \A i \in 1..Len(last.saved) :
            /\ \A k \in 1..Len(current_strings) :
                   current_strings[k].text /= last.saved[i].text
            /\ \A path \in DOMAIN files :
                   Contains(Quoted(DQ, last.saved[i].text), files[path])
                       => Reported(last.saved[i].text, path)

\* the record of Z, found in A.kt and in B.kt, was saved with a path
\* template: B.kt still holds "Z", and the fresh extraction, which finds Z
\* in the zh file, has no record of it
C27_LiteralLeftBehind ==
    /\ ExtractedAgain /\ last.template = "ok"
    /\ \E i \in 1..Len(last.saved) :
           /\ last.saved[i].text = <<"Z">>
           /\ last.saved[i].file_path = RewritePath
           /\ Contains(Quoted(DQ, <<"Z">>), files[PathB])
           /\ ~Reported(<<"Z">>, PathB)
    /\ current_strings = <<>>

\* the same save without a path template: the fresh extraction has a
\* record of the saved text Z again
C27_SavedTextExtractedAgain ==
    /\ ExtractedAgain /\ last.template = "none"
    /\ \E i \in 1..Len(last.saved) :
           /\ last.saved[i].text = <<"Z">>
           /\ \E k \in 1..Len(current_strings) : current_strings[k].text = <<"Z">>

\* the part of the claim that holds: the file stored in a saved record no
\* longer holds the literal, and the fresh extraction has no record of the
\* text in that file
C27_OwnFileConverges ==
    ExtractedAgain =>
        \A i \in 1..Len(last.saved) :
            /\ ~Contains(Quoted(DQ, last.saved[i].text), files[last.saved[i].file_path])
            /\ ~Reported(last.saved[i].text, last.saved[i].file_path)

----------------------------------------------------------------------------
(* C28: the sponsor tip.                                                   *)

ExitHooks == "printed" \in DOMAIN phase

\* C28: the sponsor tip is printed at most once in a process, whatever the
\* order and the interleaving of the atexit hook, the SIGINT handler, the
\* SIGTERM handler and the KeyboardInterrupt fallback, a handler that runs
\* while another call of print_sponsor_tip_once is in progress included.
C28_TipAtMostOnce == ExitHooks => phase.printed <= 1

\* the tip was printed twice: a handler ran between the test and the
\* store of a call in progress
C28_TipTwice ==
    /\ ExitHooks
    /\ phase.printed = 2
    /\ phase.nested
    /\ phase.polls = "every_instruction"

\* the part of the claim that holds: whatever the interleaving, the tip
\* is printed once at most by an interpreter that polls for signals at the
\* entry of a function and after a call only, and once at most as long as
\* no handler runs while a call is in progress
C28_OnceAtCallsAndEntries ==
    (ExitHooks /\ (phase.polls = "calls_and_entries" \/ ~phase.nested))
        => phase.printed <= 1

\* a handler ran while a call was in progress, the process has exited and
\* the tip was printed once
C28_NestedOnce ==
    /\ ExitHooks
    /\ phase.at = "exited"
    /\ phase.nested
    /\ phase.n = MaxSignals
    /\ phase.printed = 1

----------------------------------------------------------------------------
(* C29: the names of the placeholderArgs of a record.                      *)

DistinctNames(args) ==
    \A i, j \in 1..Len(args) : i /= j => args[i].name /= args[j].name

\* C29: the names in the placeholderArgs that the extractor builds for a
\* record are pairwise distinct, for every literal, those that repeat a
\* placeholder or mix a bare identifier such as $arg2 with an expression
\* that is no identifier included.
C29_ArgNamesDistinct ==
    \A k \in 1..Len(current_strings) : DistinctNames(current_strings[k].args)

\* the literal Z$arg2${a.g}: both pairs are named arg2, and the reference
\* written by the save pass passes arg2 twice
C29_NameTwice ==
    /\ last.op = "save"
    /\ Len(current_strings) = 1
    /\ current_strings[1].text = <<"Z", "$", "a", "r", "g", "2", "$", "{", "a", ".", "g", "}">>
    /\ current_strings[1].args =
           <<[name |-> <<"a", "r", "g", "2">>, value |-> <<"a", "r", "g", "2">>],
             [name |-> <<"a", "r", "g", "2">>, value |-> <<"a", ".", "g">>]>>
    /\ Contains(<<"a", "r", "g", "2", " = (", "a", "r", "g", "2", ").toString()", ", ",
                  "a", "r", "g", "2", " = (", "a", ".", "g", ").toString()">>,
                files[RewritePath])

\* a repeated placeholder: $n twice, both pairs named n
C29_PlaceholderRepeated ==
    /\ last.op = "extract"
    /\ Len(current_strings) = 1
    /\ current_strings[1].text = <<"Z", "$", "n", "$", "n">>
    /\ Len(current_strings[1].args) = 2
    /\ current_strings[1].args[1].name = current_strings[1].args[2].name

\* the values of the pairs of the record
ArgValues(s) == {s.args[i].value : i \in 1..Len(s.args)}

\* the part of the claim that holds: the names of a record are distinct
\* when its placeholders are distinct expressions and none of them is an
\* identifier of the form argN
C29_DistinctPlaceholders ==
    \A k \in 1..Len(current_strings) :
        (/\ Cardinality(ArgValues(current_strings[k])) = Len(current_strings[k].args)
         /\ <<"a", "r", "g", "2">> \notin ArgValues(current_strings[k]))
            => DistinctNames(current_strings[k].args)

\* ${a.g}, then $n: named arg1 and n
C29_DistinctPair ==
    /\ last.op = "extract"
    /\ Len(current_strings) = 1
    /\ Len(current_strings[1].args) = 2
    /\ current_strings[1].args[1].name = <<"a", "r", "g", "1">>
    /\ current_strings[1].args[2].name = <<"n">>

====
